---- MODULE Spec2Model ----
(***************************************************************************)
(* Model of the chat client of instalily-case-study: the ChatWindow React  *)
(* component with its localStorage session store (and the ChatWindow       *)
(* without sessions found beside it), the getAIMessage API                 *)
(* client (both versions found in the repository), the markdown code-block *)
(* renderer, and the chat-history storage utilities; and of the backend    *)
(* the client talks to (the Conversation Orchestrator, Catalog Ingestion   *)
(* and the cross-reference query of the Catalog Store), whose code is not  *)
(* among the sources and which is modelled from its specification.         *)
(*                                                                         *)
(* JavaScript strings are modelled as sequences of tokens: each space is   *)
(* the token " " and each run of non-space characters is one token, so     *)
(* that trim() and split(" ") are computed as the code computes them.      *)
(* JavaScript objects are modelled as records whose DOMAIN is the set of   *)
(* own keys; an absent key is absent from the DOMAIN.                      *)
(***************************************************************************)
EXTENDS Integers, Sequences, FiniteSets, TLC

VARIABLES
    messages,          \* useState: the displayed message list
    input,             \* useState: the text of the input field
    isLoading,         \* useState: request in flight (disables the form)
    chatHistory,       \* useState: in-memory list of sessions
    currentSessionId,  \* useState: id of the displayed session, or NoSession
    prevMessagesRef,   \* useRef: messages at the last run of the save effect
    prevSessionIdRef,  \* useRef: session id at the last run of the save effect
    defaultMessage,    \* useMemo: the welcome message list of this mount
    lsHistory,         \* localStorage['instalily_chat_history']: <<>> when the key
                       \* is missing, <<list>> when it holds the JSON of list
                       \* (<<NotJSONText>>, <<NullText>> for other texts)
    lsCurrent,         \* localStorage['instalily_current_session'], or NoSession
    now,               \* the clock read by new Date()
    nextId,            \* source of generateSessionId(): the next fresh id
    inflight,          \* the pending handleSend continuation (active or not)
                       \* with the session it was sent from and its userMessage
    pendingTimers,     \* number of queued setTimeout(() => startNewChat(), 0)
    apiModule,         \* which getAIMessage '../api/api' resolves to in this build
    sends,             \* number of requests sent so far (bounds the model)
    lastReq,           \* history: the last request handed to fetch
    truth,             \* history: per session, the turns produced for it, in order
    effect,            \* history: what the last run of the save effect did
    lastReply,         \* history: what the last handled reply did
    repo,              \* history: the last call of the chat-history utilities
    render,            \* the renderer's input and output
    orch,              \* backend: the Orchestrator's state for the current request
    catalog,           \* backend: the Catalog Store (parts, edges, next part_id)
    lastRun,           \* history: the last Ingestion run
    lastQuery          \* history: the last CROSS_REFERENCE query

vars == <<messages, input, isLoading, chatHistory, currentSessionId,
          prevMessagesRef, prevSessionIdRef, defaultMessage, lsHistory,
          lsCurrent, now, nextId, inflight, pendingTimers, apiModule, sends,
          lastReq, truth, effect, lastReply, repo, render,
          orch, catalog, lastRun, lastQuery>>

coreVars == <<orch, catalog, lastRun, lastQuery>>

windowVars == <<messages, input, isLoading, chatHistory, currentSessionId,
                prevMessagesRef, prevSessionIdRef, defaultMessage,
                lsCurrent, nextId, inflight, pendingTimers, apiModule, sends,
                lastReq, truth, effect, lastReply>>

(***************************************************************************)
(* Bounds of the model.                                                    *)
(***************************************************************************)
MaxSends == 2       \* requests sent over a run
MaxSessions == 2    \* session ids generated over a run
MaxClock == 1       \* clock ticks over a run
MaxSendsAllAnswers == 1  \* requests sent over a run of SpecAnswers
MaxRepoIds == 2     \* session ids handed to saveChatSession
MaxStoredIds == 3   \* session ids stored at the start and handed to deleteChatSession

NoSession == 0   \* currentSessionId null; a missing 'instalily_current_session'

\* The backend before its first request, Ingestion run and query.
NoOrch ==
    [state |-> "IDLE", turn |-> 0, clarifications |-> 0, intent |-> "none",
     fallback |-> FALSE, bestEffort |-> FALSE, translatorCalls |-> 0,
     storeCalls |-> 0, storeStep |-> 0, retries |-> 0, results |-> "none",
     error |-> "none", response |-> "none", raised |-> "none"]
EmptyCatalog == [parts |-> <<>>, edges |-> {}, nextPartId |-> 1]
NoRun == [done |-> FALSE]
NoQuery == [done |-> FALSE]
CoreAtRest ==
    /\ orch = NoOrch
    /\ catalog = EmptyCatalog
    /\ lastRun = NoRun
    /\ lastQuery = NoQuery

(***************************************************************************)
(* Strings as token sequences.                                             *)
(***************************************************************************)
Min(a, b) == IF a < b THEN a ELSE b

\* A literal text of words separated by single spaces.
RECURSIVE Sp(_)
Sp(ws) ==
    IF Len(ws) = 0 THEN <<>>
    ELSE IF Len(ws) = 1 THEN <<ws[1]>>
    ELSE <<ws[1], " ">> \o Sp(Tail(ws))

\* String.prototype.trim(): drop leading and trailing white space.
RECURSIVE TrimLeft(_)
TrimLeft(s) ==
    IF Len(s) > 0 /\ s[1] = " " THEN TrimLeft(Tail(s)) ELSE s

RECURSIVE TrimRight(_)
TrimRight(s) ==
    IF Len(s) > 0 /\ s[Len(s)] = " " THEN TrimRight(SubSeq(s, 1, Len(s) - 1)) ELSE s

Trim(s) == TrimRight(TrimLeft(s))

\* String.prototype.split(" "): the pieces between the spaces (empty pieces kept).
RECURSIVE SplitFrom(_, _)
SplitFrom(s, piece) ==
    IF Len(s) = 0 THEN <<piece>>
    ELSE IF s[1] = " " THEN <<piece>> \o SplitFrom(Tail(s), <<>>)
    ELSE SplitFrom(Tail(s), piece \o <<s[1]>>)

Split(s) == SplitFrom(s, <<>>)

\* Array.prototype.join(" ").
RECURSIVE Join(_)
Join(parts) ==
    IF Len(parts) = 0 THEN <<>>
    ELSE IF Len(parts) = 1 THEN parts[1]
    ELSE parts[1] \o <<" ">> \o Join(Tail(parts))

\* s + text for a text without spaces: it extends the last run of non-space
\* characters of s, or starts one.
AppendText(s, text) ==
    IF Len(s) > 0 /\ s[Len(s)] # " "
    THEN SubSeq(s, 1, Len(s) - 1) \o <<s[Len(s)] \o text>>
    ELSE s \o <<text>>

\* Array.prototype.slice(0, n).
Slice0(seq, n) == SubSeq(seq, 1, Min(n, Len(seq)))

(***************************************************************************)
(* Messages.                                                               *)
(***************************************************************************)
DefaultContent ==
    Sp(<<"Hi,", "I'm", "your", "appliance", "parts", "and", "repair",
         "assistant.", "How", "can", "I", "help", "you", "today?">>)

NewConversation == Sp(<<"New", "Conversation">>)

\* msg.isLoading as a condition: absent key is falsy.
IsLoadingMsg(m) == "isLoading" \in DOMAIN m /\ m.isLoading

NotLoading(m) == ~IsLoadingMsg(m)

\* { role: "assistant", isLoading: true }
LoadingMessage == [role |-> "assistant", isLoading |-> TRUE]

\* { role: "user", content: input, timestamp: new Date().toISOString() }
UserMessage(text, t) == [role |-> "user", content |-> text, timestamp |-> t]

MakeDefaultMessage(t) ==
    <<[role |-> "assistant", content |-> DefaultContent, timestamp |-> t]>>

(***************************************************************************)
(* The server's answers to POST /api/query, as fetch presents them.        *)
(* A body is a concrete text together with what JSON.parse makes of it.    *)
(***************************************************************************)
AnswerText == Sp(<<"Part", "PS11752778", "is", "in", "stock">>)

NotJSON == [t |-> "invalid"]
JNull == [t |-> "null"]
JObject(fields) == [t |-> "object", v |-> fields]

\* The message of the SyntaxError that response.json() rejects with on the
\* body <html>Bad Gateway</html>. Its wording is the JavaScript engine's:
\* V8 from version 10.5 on (Node 20, current Chrome), older V8, SpiderMonkey.
JsonSyntaxError ==
    Sp(<<"Unexpected", "token", "'<',", "\"<html>Bad", "\"...", "is", "not",
         "valid", "JSON">>)
JsonSyntaxErrorOlderV8 ==
    Sp(<<"Unexpected", "token", "<", "in", "JSON", "at", "position", "0">>)
JsonSyntaxErrorSpiderMonkey ==
    Sp(<<"JSON.parse:", "unexpected", "character", "at", "line", "1", "column",
         "1", "of", "the", "JSON", "data">>)
JsonSyntaxErrors ==
    {JsonSyntaxError, JsonSyntaxErrorOlderV8, JsonSyntaxErrorSpiderMonkey}

\* A text that is not JSON, with the message the engine at hand gives.
NotJSONSaying(message) == [t |-> "invalid", message |-> message]

\* The body of the same text in each engine.
HtmlBodies ==
    { [text |-> "<html>Bad Gateway</html>", json |-> NotJSONSaying(message)] :
        message \in JsonSyntaxErrors }

Bodies ==
    { [text |-> "{\"response\":\"Part PS11752778 is in stock\"}",
       json |-> JObject([response |-> AnswerText])],
      [text |-> "{\"response\":\"\"}",
       json |-> JObject([response |-> <<>>])],
      [text |-> "{\"error\":\"boom\"}",
       json |-> JObject([error |-> <<"boom">>])],
      [text |-> "null", json |-> JNull] }
    \cup HtmlBodies

AnswerBody == CHOOSE b \in Bodies : b.json = JObject([response |-> AnswerText])
HtmlBody == CHOOSE b \in HtmlBodies : b.json.message = JsonSyntaxError

\* fetch rejected (no response), or a response with a status and a body;
\* textOk: whether reading the body as text succeeds.
Responses ==
    { [net |-> "fail"] }
    \cup { [net |-> "ok", status |-> 200, textOk |-> TRUE, body |-> b] : b \in Bodies }
    \cup [net : {"ok"}, status : {500}, textOk : BOOLEAN, body : {AnswerBody, HtmlBody}]

\* The answers of the runs that follow a conversation over several requests.
SomeResponses ==
    { [net |-> "ok", status |-> 200, textOk |-> TRUE, body |-> AnswerBody],
      [net |-> "ok", status |-> 500, textOk |-> TRUE, body |-> HtmlBody] }

\* Response.ok
ResponseOk(resp) == resp.status >= 200 /\ resp.status <= 299

Threw(msg) == [threw |-> TRUE, message |-> msg]
Returned(val) == [threw |-> FALSE, value |-> val]

FailedToFetch == Sp(<<"Failed", "to", "fetch">>)
BodyStreamError == Sp(<<"network", "error">>)
NullPropertyError ==
    Sp(<<"Cannot", "read", "properties", "of", "null", "(reading", "'response')">>)
HttpError(status) == Sp(<<"HTTP", "error!", "Status:", ToString(status)>>)

CouldNotProcess == Sp(<<"Sorry,", "I", "couldn't", "process", "your", "request.">>)

\* `Sorry, I encountered an error while processing your request: ${message}. Please try again later.`
ApologyContent(message) ==
    Sp(<<"Sorry,", "I", "encountered", "an", "error", "while", "processing",
         "your", "request:">>)
    \o <<" ">> \o AppendText(message, ".") \o <<" ">>
    \o Sp(<<"Please", "try", "again", "later.">>)

\* x || y on strings: the empty string is falsy.
OrElse(x, y) == IF x = <<>> THEN y ELSE x

\* data.response || "Sorry, I couldn't process your request." ; reading a
\* property of null throws a TypeError, a missing key reads as undefined.
ReadAnswer(data) ==
    IF data = JNull THEN Threw(NullPropertyError)
    ELSE IF "response" \in DOMAIN data.v
         THEN Returned(OrElse(data.v.response, CouldNotProcess))
         ELSE Returned(CouldNotProcess)

\* TryFetch without the `if (!response.ok)` branch.
TryFetchIgnoringStatus(resp) ==
    IF resp.net = "fail" THEN Threw(FailedToFetch)
    ELSE IF resp.body.json.t = "invalid" THEN Threw(resp.body.json.message)
    ELSE ReadAnswer(resp.body.json)

\* The body of getAIMessage's try block from the await of fetch on: what it
\* throws or the content it computes (the same in both versions).
TryFetch(resp) ==
    IF resp.net = "fail" THEN Threw(FailedToFetch)
    ELSE IF ~ResponseOk(resp)
         THEN IF resp.textOk THEN Threw(HttpError(resp.status))
              ELSE Threw(BodyStreamError)
    ELSE IF resp.body.json.t = "invalid" THEN Threw(resp.body.json.message)
    ELSE ReadAnswer(resp.body.json)

Resolved(msg) == [settled |-> "resolved", value |-> msg]
Rejected(msg) == [settled |-> "rejected", message |-> msg]

\* CatchAll with a catch block that rethrows.
CatchAllRethrows(r, t, withTimestamp) ==
    IF r.threw THEN Rejected(r.message)
    ELSE Resolved([role |-> "assistant", content |-> r.value, timestamp |-> t])

\* The try/catch of getAIMessage around the outcome r of its try block;
\* withTimestamp tells the two versions apart.
CatchAll(r, t, withTimestamp) ==
    LET content == IF r.threw THEN ApologyContent(r.message) ELSE r.value
    IN  Resolved(IF withTimestamp
                 THEN [role |-> "assistant", content |-> content, timestamp |-> t]
                 ELSE [role |-> "assistant", content |-> content])

\* FilterLoading without the filter.
FilterNothing(history) == history

\* conversationHistory.filter(msg => !msg.isLoading)
FilterLoading(history) == SelectSeq(history, NotLoading)

\* msg => ({ role: msg.role, content: msg.content }) as JSON.stringify
\* writes it: a key whose value is undefined is left out.
FormatMsg(m) ==
    IF "content" \in DOMAIN m
    THEN [role |-> m.role, content |-> m.content]
    ELSE [role |-> m.role]

FormatHistory(history) ==
    LET kept == FilterLoading(history)
    IN  [i \in 1..Len(kept) |-> FormatMsg(kept[i])]

\* The request body of each version of getAIMessage.
RequestBody(api, userQuery, conversationHistory) ==
    IF api = "part_001"
    THEN [query |-> userQuery,
          conversation_history |-> FormatHistory(conversationHistory)]
    ELSE [query |-> userQuery]

\* What the promise returned by getAIMessage settles to, given the server's
\* answer and the time at which it is handled.
getAIMessage(api, resp, t) == CatchAll(TryFetch(resp), t, api = "part_001")

ApiModules == {"part_001", "api_js"}

(***************************************************************************)
(* ChatWindow: sessions, localStorage and the save effect.                 *)
(***************************************************************************)
Inputs ==
    { <<" ">>, Sp(<<"hello">>),
      Sp(<<"do", "you", "have", "part", "PS11752778">>) }

\* storedData ? JSON.parse(storedData) : []
LsGet(ls) == IF ls = <<>> THEN <<>> ELSE ls[1]

\* localStorage.setItem(CHAT_HISTORY_KEY, JSON.stringify(list))
LsSet(list) == <<list>>

NewSession(id, dm, t) ==
    [id |-> id, title |-> NewConversation, messages |-> dm, timestamp |-> t]

SessionIds(list) == {list[i].id : i \in 1..Len(list)}

\* list.find(s => s.id === id), for an id that is in the list
FindSession(list, id) ==
    list[CHOOSE i \in 1..Len(list) :
             list[i].id = id /\ \A j \in 1..(i - 1) : list[j].id # id]

\* list.findIndex(s => s.id === id), 1-based, 0 for -1
SessionIndex(list, id) ==
    IF id \in SessionIds(list)
    THEN CHOOSE i \in 1..Len(list) :
             list[i].id = id /\ \A j \in 1..(i - 1) : list[j].id # id
    ELSE 0

IsUserMsg(m) == m.role = "user"

\* messages.find(m => m.role === "user"): the index of the first user
\* message of a list that has one.
FirstUserIndex(msgs) ==
    CHOOSE i \in 1..Len(msgs) :
        IsUserMsg(msgs[i]) /\ \A j \in 1..(i - 1) : ~IsUserMsg(msgs[j])

\* The title the save effect gives the session: derived from the first user
\* message while the stored title is still "New Conversation".
DeriveTitle(title, msgs) ==
    IF title = NewConversation /\ \E i \in 1..Len(msgs) : IsUserMsg(msgs[i])
    THEN LET first == msgs[FirstUserIndex(msgs)]
         IN  AppendText(Join(Slice0(Split(first.content), 4)), "...")
    ELSE title

\* NothingChanged comparing the parsed array with the state array by
\* reference: never equal.
NothingChangedByReference(session, msgs, title) == FALSE

\* JSON.stringify(currentSession.messages) === JSON.stringify(messages) &&
\* currentSession.title === title
NothingChanged(session, msgs, title) ==
    session.messages = msgs /\ session.title = title

NotRun == [outcome |-> "not_run"]

\* A save effect that writes to localStorage and leaves the state alone.
KeepHistory(prev, storedHistory) == prev

\* setChatHistory(prev => JSON.stringify(prev) === JSON.stringify(storedHistory)
\*                          ? prev : storedHistory)
SyncedHistory(prev, storedHistory) ==
    IF prev = storedHistory THEN prev ELSE storedHistory

\* The save effect (useEffect on [messages, currentSessionId]) with
\* updateSessionInStorage, run on the committed state: the resulting
\* localStorage entry, chatHistory state and refs, and a record of the run.
SaveEffect(msgs, sid, hist, ls, prevM, prevS, t) ==
    LET stored == LsGet(ls)
        idx == SessionIndex(stored, sid)
        cur == stored[idx]
        title == DeriveTitle(cur.title, msgs)
        updated == [stored EXCEPT ![idx] =
                       [cur EXCEPT !.title = title, !.messages = msgs,
                                   !.timestamp = t]]
        Result(ls2, hist2, prevM2, prevS2, outcome) ==
            [ls |-> ls2, hist |-> hist2, prevM |-> prevM2, prevS |-> prevS2,
             log |-> [outcome |-> outcome, sid |-> sid, messages |-> msgs,
                      lsBefore |-> ls, lsAfter |-> ls2,
                      histBefore |-> hist, histAfter |-> hist2]]
    IN  IF sid = NoSession \/ Len(msgs) = 0
        THEN Result(ls, hist, prevM, prevS, "no_session")
        ELSE IF prevM = msgs /\ prevS = sid
        THEN Result(ls, hist, prevM, prevS, "same_refs")
        ELSE IF idx = 0
        THEN Result(ls, hist, msgs, sid, "not_stored")
        ELSE IF NothingChanged(cur, msgs, title)
        THEN Result(ls, hist, msgs, sid, "unchanged")
        ELSE Result(LsSet(updated), SyncedHistory(hist, updated),
                    msgs, sid, "written")

\* React commits the state set by a handler (the updates of one handler are
\* batched into one render) and then runs the save effect when one of its
\* dependencies [messages, currentSessionId] changed. Arrays are compared
\* here by value where React compares references: a new array equal to the
\* old one would run the effect, which then finds the stored session
\* unchanged and returns.
AfterRender(m2, id2, ch2, ls2) ==
    LET e == SaveEffect(m2, id2, ch2, ls2, prevMessagesRef, prevSessionIdRef, now)
    IN  /\ messages' = m2
        /\ currentSessionId' = id2
        /\ IF m2 # messages \/ id2 # currentSessionId
           THEN /\ chatHistory' = e.hist
                /\ lsHistory' = e.ls
                /\ prevMessagesRef' = e.prevM
                /\ prevSessionIdRef' = e.prevS
                /\ effect' = e.log
           ELSE /\ chatHistory' = ch2
                /\ lsHistory' = ls2
                /\ UNCHANGED <<prevMessagesRef, prevSessionIdRef>>
                /\ effect' = NotRun

\* The turn of a message, as the server is to see it.
Turn(m) == [role |-> m.role, content |-> m.content]

Idle == [active |-> FALSE]
NoRequest == [sent |-> FALSE]
NoReply == [handled |-> FALSE]
NoCall == [op |-> "none"]
NoRender == [done |-> FALSE]

\* Mounting the component: the first render, the init effect (lines 39-71)
\* and the save effect of the render that follows it.
Mount(ls, cur, t, nid) ==
    LET dm == MakeDefaultMessage(t)
        history == LsGet(ls)
        found == cur # NoSession /\ cur \in SessionIds(history)
        updatedHistory == <<NewSession(nid, dm, t)>> \o history
        m2 == IF found THEN FindSession(history, cur).messages ELSE dm
        id2 == IF found THEN cur ELSE nid
        ch2 == IF found THEN history ELSE updatedHistory
        ls2 == IF found THEN ls ELSE LsSet(updatedHistory)
        e == SaveEffect(m2, id2, ch2, ls2, dm, NoSession, t)
    IN  [messages |-> m2, currentSessionId |-> id2, chatHistory |-> e.hist,
         lsHistory |-> e.ls, lsCurrent |-> id2, prevM |-> e.prevM,
         prevS |-> e.prevS, defaultMessage |-> dm, effect |-> e.log,
         nextId |-> IF found THEN nid ELSE nid + 1, created |-> ~found]

NoTurns == [i \in 1..MaxSessions |-> <<>>]

Init ==
    LET m == Mount(<<>>, NoSession, 0, 1)
    IN  /\ apiModule \in ApiModules
        /\ now = 0
        /\ messages = m.messages
        /\ input = <<>>
        /\ isLoading = FALSE
        /\ chatHistory = m.chatHistory
        /\ currentSessionId = m.currentSessionId
        /\ prevMessagesRef = m.prevM
        /\ prevSessionIdRef = m.prevS
        /\ defaultMessage = m.defaultMessage
        /\ lsHistory = m.lsHistory
        /\ lsCurrent = m.lsCurrent
        /\ nextId = m.nextId
        /\ inflight = Idle
        /\ pendingTimers = 0
        /\ sends = 0
        /\ lastReq = NoRequest
        /\ truth = [NoTurns EXCEPT ![1] = <<Turn(m.defaultMessage[1])>>]
        /\ effect = m.effect
        /\ lastReply = NoReply
        /\ repo = NoCall
        /\ render = NoRender
        /\ CoreAtRest

(***************************************************************************)
(* ChatWindow: the handlers.                                               *)
(***************************************************************************)
\* "Sorry, I encountered an error. Please try again later." (handleSend's catch)
SendErrorContent ==
    Sp(<<"Sorry,", "I", "encountered", "an", "error.", "Please", "try",
         "again", "later.">>)

\* A step that handles neither a send nor a reply leaves no record of one,
\* and runs no save effect.
Forget ==
    /\ lastReq' = NoRequest
    /\ lastReply' = NoReply
    /\ effect' = NotRun

\* A form whose input and button are never disabled.
FormNeverDisabled(loading) == FALSE

\* disabled={isLoading} on the input field and on the send button.
FormDisabled(loading) == loading

\* onChange of the input field; the field is disabled while isLoading.
SetInput(text) ==
    /\ ~FormDisabled(isLoading)
    /\ text # input
    /\ input' = text
    /\ UNCHANGED <<messages, isLoading, chatHistory, currentSessionId,
                   prevMessagesRef, prevSessionIdRef, defaultMessage,
                   lsHistory, lsCurrent, now, nextId, inflight, pendingTimers,
                   apiModule, sends, truth, repo, render, coreVars>>
    /\ Forget

\* handleSend up to the await: the form is disabled while isLoading; a blank
\* input returns at once; otherwise the user message and the loading
\* placeholder are displayed and getAIMessage hands the request to fetch.
HandleSendWithin(limit) ==
    /\ ~FormDisabled(isLoading)
    /\ sends < limit
    /\ Trim(input) # <<>>
    /\ LET userMessage == UserMessage(input, now)
           updatedMessages == messages \o <<userMessage>>
           messagesWithLoading == updatedMessages \o <<LoadingMessage>>
       IN  /\ input' = <<>>
           /\ isLoading' = TRUE
           /\ inflight' = [active |-> TRUE, sid |-> currentSessionId,
                           userMessage |-> userMessage]
           /\ sends' = sends + 1
           /\ lastReq' = [sent |-> TRUE,
                          sid |-> currentSessionId,
                          utterance |-> userMessage,
                          source |-> updatedMessages,
                          turnsBefore |-> truth[currentSessionId],
                          body |-> RequestBody(apiModule, userMessage.content,
                                               updatedMessages)]
           /\ truth' = [truth EXCEPT ![currentSessionId] = @ \o <<Turn(userMessage)>>]
           /\ AfterRender(messagesWithLoading, currentSessionId, chatHistory,
                          lsHistory)
    /\ lastReply' = NoReply
    /\ UNCHANGED <<defaultMessage, lsCurrent, now, nextId, pendingTimers,
                   apiModule, repo, render, coreVars>>

HandleSend == HandleSendWithin(MaxSends)

\* prevMessages.filter(msg => !msg.isLoading)
RemoveLoading(prevMessages) == SelectSeq(prevMessages, NotLoading)

\* handleSend after the await: the promise of getAIMessage settles for the
\* server's answer resp; the try, catch and finally branches.
HandleReply(resp) ==
    /\ inflight.active
    /\ LET r == getAIMessage(apiModule, resp, now)
           aiResponse ==
               IF r.settled = "resolved" THEN r.value
               ELSE [role |-> "assistant", content |-> SendErrorContent,
                     timestamp |-> now]
           m2 == RemoveLoading(messages) \o <<aiResponse>>
       IN  /\ isLoading' = FALSE
           /\ inflight' = Idle
           /\ lastReply' = [handled |-> TRUE, resp |-> resp, result |-> r,
                            before |-> messages, after |-> m2,
                            sid |-> inflight.sid,
                            userMessage |-> inflight.userMessage]
           /\ truth' = [truth EXCEPT ![inflight.sid] = @ \o <<Turn(aiResponse)>>]
           /\ AfterRender(m2, currentSessionId, chatHistory, lsHistory)
    /\ lastReq' = NoRequest
    /\ UNCHANGED <<input, defaultMessage, lsCurrent, now, nextId,
                   pendingTimers, apiModule, sends, repo, render, coreVars>>

\* The body of startNewChat.
DoStartNewChat ==
    LET newSession == NewSession(nextId, defaultMessage, now)
        updatedHistory == <<newSession>> \o chatHistory
    IN  /\ nextId' = nextId + 1
        /\ lsCurrent' = nextId
        /\ truth' = [truth EXCEPT ![nextId] = <<Turn(defaultMessage[1])>>]
        /\ AfterRender(defaultMessage, nextId, updatedHistory,
                       LsSet(updatedHistory))
        /\ lastReq' = NoRequest
        /\ lastReply' = NoReply
        /\ UNCHANGED <<input, isLoading, defaultMessage, now, inflight,
                       apiModule, sends, repo, render, coreVars>>

\* Click on "+ New Chat".
StartNewChat ==
    /\ nextId + pendingTimers <= MaxSessions
    /\ DoStartNewChat
    /\ UNCHANGED pendingTimers

\* The setTimeout(() => startNewChat(), 0) queued by deleteSession fires.
TimerStartNewChat ==
    /\ pendingTimers > 0
    /\ nextId <= MaxSessions
    /\ pendingTimers' = pendingTimers - 1
    /\ DoStartNewChat

\* loadSession without localStorage.setItem(CURRENT_SESSION_KEY, sessionId).
LoadSessionNoStore(sessionId) ==
    /\ sessionId \in SessionIds(chatHistory)
    /\ AfterRender(FindSession(chatHistory, sessionId).messages, sessionId,
                   chatHistory, lsHistory)
    /\ lastReq' = NoRequest
    /\ lastReply' = NoReply
    /\ UNCHANGED <<input, isLoading, defaultMessage, now, nextId, inflight,
                   pendingTimers, apiModule, sends, truth, repo, render,
                   coreVars, lsCurrent>>

\* Click on a session of the history list.
LoadSession(sessionId) ==
    /\ sessionId \in SessionIds(chatHistory)
    /\ lsCurrent' = sessionId
    /\ AfterRender(FindSession(chatHistory, sessionId).messages, sessionId,
                   chatHistory, lsHistory)
    /\ lastReq' = NoRequest
    /\ lastReply' = NoReply
    /\ UNCHANGED <<input, isLoading, defaultMessage, now, nextId, inflight,
                   pendingTimers, apiModule, sends, truth, repo, render, coreVars>>

\* prevHistory.filter(session => session.id !== sessionId)
WithoutSession(list, sessionId) ==
    LET Keep(s) == s.id # sessionId IN SelectSeq(list, Keep)

\* deleteSession without the setTimeout(() => startNewChat(), 0).
DeleteSessionNoTimer(sessionId) ==
    /\ sessionId \in SessionIds(chatHistory)
    /\ LET updatedHistory == WithoutSession(chatHistory, sessionId)
           isCurrent == sessionId = currentSessionId
           switch == isCurrent /\ Len(updatedHistory) > 0
           queue == FALSE
       IN  /\ queue => nextId + pendingTimers <= MaxSessions
           /\ lsCurrent' = IF switch THEN updatedHistory[1].id ELSE lsCurrent
           /\ pendingTimers' = IF queue THEN pendingTimers + 1 ELSE pendingTimers
           /\ AfterRender(IF switch THEN updatedHistory[1].messages ELSE messages,
                          IF switch THEN updatedHistory[1].id ELSE currentSessionId,
                          updatedHistory, LsSet(updatedHistory))
    /\ lastReq' = NoRequest
    /\ lastReply' = NoReply
    /\ UNCHANGED <<input, isLoading, defaultMessage, now, nextId, inflight,
                   apiModule, sends, truth, repo, render, coreVars>>

\* Click on the delete button of a session of the history list.
DeleteSession(sessionId) ==
    /\ sessionId \in SessionIds(chatHistory)
    /\ LET updatedHistory == WithoutSession(chatHistory, sessionId)
           isCurrent == sessionId = currentSessionId
           switch == isCurrent /\ Len(updatedHistory) > 0
           queue == isCurrent /\ Len(updatedHistory) = 0
       IN  /\ queue => nextId + pendingTimers <= MaxSessions
           /\ lsCurrent' = IF switch THEN updatedHistory[1].id ELSE lsCurrent
           /\ pendingTimers' = IF queue THEN pendingTimers + 1 ELSE pendingTimers
           /\ AfterRender(IF switch THEN updatedHistory[1].messages ELSE messages,
                          IF switch THEN updatedHistory[1].id ELSE currentSessionId,
                          updatedHistory, LsSet(updatedHistory))
    /\ lastReq' = NoRequest
    /\ lastReply' = NoReply
    /\ UNCHANGED <<input, isLoading, defaultMessage, now, nextId, inflight,
                   apiModule, sends, truth, repo, render, coreVars>>

\* The page is reloaded: the pending request and timers are gone with the
\* old page, and the component mounts over the localStorage left behind.
Reload ==
    /\ LET m == Mount(lsHistory, lsCurrent, now, nextId)
       IN  /\ m.created => nextId <= MaxSessions
           /\ messages' = m.messages
           /\ input' = <<>>
           /\ isLoading' = FALSE
           /\ chatHistory' = m.chatHistory
           /\ currentSessionId' = m.currentSessionId
           /\ prevMessagesRef' = m.prevM
           /\ prevSessionIdRef' = m.prevS
           /\ defaultMessage' = m.defaultMessage
           /\ lsHistory' = m.lsHistory
           /\ lsCurrent' = m.lsCurrent
           /\ nextId' = m.nextId
           /\ effect' = m.effect
           /\ truth' = IF m.created
                       THEN [truth EXCEPT ![nextId] = <<Turn(m.defaultMessage[1])>>]
                       ELSE truth
    /\ inflight' = Idle
    /\ pendingTimers' = 0
    /\ lastReq' = NoRequest
    /\ lastReply' = NoReply
    /\ UNCHANGED <<now, apiModule, sends, repo, render, coreVars>>

\* Time passes.
Tick ==
    /\ now < MaxClock
    /\ now' = now + 1
    /\ UNCHANGED <<messages, input, isLoading, chatHistory, currentSessionId,
                   prevMessagesRef, prevSessionIdRef, defaultMessage,
                   lsHistory, lsCurrent, nextId, inflight, pendingTimers,
                   apiModule, sends, truth, repo, render, coreVars>>
    /\ Forget

\* The user's actions on the window other than sending, and the clock.
Browse ==
    \/ \E text \in Inputs : SetInput(text)
    \/ StartNewChat
    \/ TimerStartNewChat
    \/ \E sessionId \in 1..MaxSessions : LoadSession(sessionId)
    \/ \E sessionId \in 1..MaxSessions : DeleteSession(sessionId)
    \/ Reload
    \/ Tick

Next ==
    \/ Browse
    \/ HandleSend
    \/ \E resp \in SomeResponses : HandleReply(resp)

Spec == Init /\ [][Next]_vars

\* The event loop runs the callback of a setTimeout that is pending.
SpecTimers == Spec /\ WF_vars(TimerStartNewChat)

\* One request, answered in every way the server and the network can.
NextAnswers ==
    \/ Browse
    \/ HandleSendWithin(MaxSendsAllAnswers)
    \/ \E resp \in Responses : HandleReply(resp)

SpecAnswers == Init /\ [][NextAnswers]_vars

(***************************************************************************)
(* The ChatWindow without sessions (the second component of the sources):  *)
(* it keeps messages, input and isLoading only, sends the utterance        *)
(* without history and reads and writes no localStorage.                   *)
(***************************************************************************)
\* defaultMessage of this component: no timestamp.
PlainDefaultMessage == <<[role |-> "assistant", content |-> DefaultContent]>>

\* { role: "assistant", content: "Thinking...", isLoading: true }
ThinkingMessage ==
    [role |-> "assistant", content |-> Sp(<<"Thinking...">>), isLoading |-> TRUE]

\* handleSend up to the await: a blank input returns at once; otherwise
\* the user message and the "Thinking..." placeholder are appended and
\* getAIMessage(userMessage.content) hands the request to fetch.
PlainHandleSend ==
    /\ ~FormDisabled(isLoading)
    /\ sends < MaxSends
    /\ Trim(input) # <<>>
    /\ LET userMessage == [role |-> "user", content |-> input]
       IN  /\ messages' = messages \o <<userMessage>> \o <<ThinkingMessage>>
           /\ input' = <<>>
           /\ isLoading' = TRUE
           /\ inflight' = [active |-> TRUE, sid |-> NoSession,
                           userMessage |-> userMessage]
           /\ sends' = sends + 1
           /\ lastReq' = [sent |-> TRUE,
                          sid |-> NoSession,
                          utterance |-> userMessage,
                          source |-> <<>>,
                          turnsBefore |-> <<>>,
                          body |-> RequestBody(apiModule, userMessage.content, <<>>)]
    /\ lastReply' = NoReply
    /\ UNCHANGED <<chatHistory, currentSessionId, prevMessagesRef,
                   prevSessionIdRef, defaultMessage, lsHistory, lsCurrent, now,
                   nextId, pendingTimers, apiModule, truth, effect, repo,
                   render, coreVars>>

\* handleSend after the await: the try, catch and finally branches.
PlainHandleReply(resp) ==
    /\ inflight.active
    /\ LET r == getAIMessage(apiModule, resp, now)
           aiResponse ==
               IF r.settled = "resolved" THEN r.value
               ELSE [role |-> "assistant", content |-> SendErrorContent]
           m2 == RemoveLoading(messages) \o <<aiResponse>>
       IN  /\ messages' = m2
           /\ isLoading' = FALSE
           /\ inflight' = Idle
           /\ lastReply' = [handled |-> TRUE, resp |-> resp, result |-> r,
                            before |-> messages, after |-> m2,
                            sid |-> NoSession,
                            userMessage |-> inflight.userMessage]
    /\ lastReq' = NoRequest
    /\ UNCHANGED <<input, chatHistory, currentSessionId, prevMessagesRef,
                   prevSessionIdRef, defaultMessage, lsHistory, lsCurrent, now,
                   nextId, pendingTimers, apiModule, sends, truth, effect,
                   repo, render, coreVars>>

\* The page is reloaded: the component mounts again with its initial
\* state, and the pending request is gone with the old page.
PlainReload ==
    /\ messages' = PlainDefaultMessage
    /\ input' = <<>>
    /\ isLoading' = FALSE
    /\ inflight' = Idle
    /\ lastReq' = NoRequest
    /\ lastReply' = NoReply
    /\ UNCHANGED <<chatHistory, currentSessionId, prevMessagesRef,
                   prevSessionIdRef, defaultMessage, lsHistory, lsCurrent, now,
                   nextId, pendingTimers, apiModule, sends, truth, effect,
                   repo, render, coreVars>>

InitPlain ==
    /\ apiModule \in ApiModules
    /\ now = 0
    /\ messages = PlainDefaultMessage
    /\ input = <<>>
    /\ isLoading = FALSE
    /\ chatHistory = <<>>
    /\ currentSessionId = NoSession
    /\ prevMessagesRef = <<>>
    /\ prevSessionIdRef = NoSession
    /\ defaultMessage = PlainDefaultMessage
    /\ lsHistory = <<>>
    /\ lsCurrent = NoSession
    /\ nextId = 1
    /\ inflight = Idle
    /\ pendingTimers = 0
    /\ sends = 0
    /\ lastReq = NoRequest
    /\ truth = NoTurns
    /\ effect = NotRun
    /\ lastReply = NoReply
    /\ repo = NoCall
    /\ render = NoRender
    /\ CoreAtRest

NextPlain ==
    \/ \E text \in Inputs : SetInput(text)
    \/ PlainHandleSend
    \/ \E resp \in Responses : PlainHandleReply(resp)
    \/ PlainReload
    \/ Tick

SpecPlain == InitPlain /\ [][NextPlain]_vars

(***************************************************************************)
(* The markdown renderer's code-block override (renderer.code).            *)
(* A fenced block is its literal text with what JSON.parse makes of it.    *)
(* Rendered HTML is modelled by its structure.                             *)
(***************************************************************************)
JArray(elems) == [t |-> "array", v |-> elems]
JNumber(n) == [t |-> "number", v |-> n]
JString(str) == [t |-> "string", v |-> str]
JBool(b) == [t |-> "boolean", v |-> b]

WaterFilter ==
    JObject([part_name |-> "Water Filter", price |-> "$29.99",
             image_url |-> "https://example.com/filter.jpg",
             manufacturer_number |-> "W10295370A",
             partselect_number |-> "PS11752778",
             description |-> "Refrigerator water filter",
             url |-> "https://example.com/PS11752778"])
DoorBin == JObject([name |-> "Door Bin", partselect_number |-> "PS11752778"])
Blank == JObject([part_name |-> "", name |-> "", price |-> ""])

\* The JSON texts of WaterFilter and DoorBin.
WaterFilterText ==
    "{\"part_name\":\"Water Filter\",\"price\":\"$29.99\","
    \o "\"image_url\":\"https://example.com/filter.jpg\","
    \o "\"manufacturer_number\":\"W10295370A\","
    \o "\"partselect_number\":\"PS11752778\","
    \o "\"description\":\"Refrigerator water filter\","
    \o "\"url\":\"https://example.com/PS11752778\"}"
DoorBinText == "{\"name\":\"Door Bin\",\"partselect_number\":\"PS11752778\"}"

CodeBlocks ==
    { [text |-> WaterFilterText, json |-> WaterFilter],
      [text |-> DoorBinText, json |-> DoorBin],
      [text |-> "{\"part_name\":\"\",\"name\":\"\",\"price\":\"\"}", json |-> Blank],
      [text |-> "[]", json |-> JArray(<<>>)],
      [text |-> "[" \o WaterFilterText \o "]",
       json |-> JArray(<<WaterFilter>>)],
      [text |-> "[" \o WaterFilterText \o "," \o DoorBinText \o "]",
       json |-> JArray(<<WaterFilter, DoorBin>>)],
      [text |-> "[null]", json |-> JArray(<<JNull>>)],
      [text |-> "[" \o DoorBinText \o ",null]",
       json |-> JArray(<<DoorBin, JNull>>)],
      [text |-> "[42]", json |-> JArray(<<JNumber(42)>>)],
      [text |-> "null", json |-> JNull],
      [text |-> "42", json |-> JNumber(42)],
      [text |-> "\"Water Filter\"", json |-> JString("Water Filter")],
      [text |-> "true", json |-> JBool(TRUE)],
      [text |-> "{part_name: Water Filter}", json |-> NotJSON],
      [text |-> "[{\"name\":\"Door Bin\"},]", json |-> NotJSON],
      [text |-> "", json |-> NotJSON] }

RenderTags == {"json-to-render", "dictionary-list-to-render"}
Languages == RenderTags \cup {"json", "javascript", ""}

\* product.key as a condition and as text: a missing key, and any key of a
\* number, string, boolean or array, reads as undefined (here "").
Prop(product, key) ==
    IF product.t = "object" /\ key \in DOMAIN product.v THEN product.v[key] ELSE ""

\* a || b on strings
Or(a, b) == IF a # "" THEN a ELSE b

\* cond ? <<element>> : ''
When(cond, element) == IF cond THEN <<element>> ELSE <<>>

\* The elements of the rendered HTML.
Paragraph(children) == [kind |-> "p", children |-> children]
Strong(str) == [kind |-> "strong", text |-> str]
TextNode(str) == [kind |-> "text", text |-> str]
Anchor(href, str) == [kind |-> "a", href |-> href, text |-> str]

\* renderProductCard: reading a property of null throws a TypeError.
renderProductCard(product) ==
    IF product = JNull THEN [threw |-> TRUE]
    ELSE [threw |-> FALSE,
          html |->
            [kind |-> "product-card",
             h3 |-> Or(Prop(product, "part_name"), Or(Prop(product, "name"), "Product")),
             price |-> Or(Prop(product, "price"), ""),
             img |-> When(Prop(product, "image_url") # "",
                          [src |-> Prop(product, "image_url"),
                           alt |-> Or(Prop(product, "part_name"), "Product")]),
             details |->
                 When(Prop(product, "manufacturer_number") # "",
                      Paragraph(<<Strong("Manufacturer #:"),
                                  TextNode(Prop(product, "manufacturer_number"))>>))
                 \o When(Prop(product, "partselect_number") # "",
                         Paragraph(<<Strong("PartSelect #:"),
                                     TextNode(Prop(product, "partselect_number"))>>))
                 \o When(Prop(product, "description") # "",
                         Paragraph(<<TextNode(Prop(product, "description"))>>))
                 \o When(Prop(product, "url") # "",
                         Anchor(Prop(product, "url"), "View Details"))]]

\* '<p>No products found</p>'
NoProductsFound == Paragraph(<<TextNode("No products found")>>)

\* renderProductList
renderProductList(products) ==
    IF Len(products) = 0 THEN [threw |-> FALSE, html |-> NoProductsFound]
    ELSE IF \E i \in 1..Len(products) : renderProductCard(products[i]).threw
    THEN [threw |-> TRUE]
    ELSE [threw |-> FALSE,
          html |-> [kind |-> "product-list",
                    cards |-> [i \in 1..Len(products) |->
                                  renderProductCard(products[i]).html]]]

\* originalCodeRenderer.call(this, code, language): marked's own code block
originalCodeRenderer(code, language) ==
    [threw |-> FALSE, html |-> [kind |-> "code", text |-> code.text, lang |-> language]]

\* The body of the try block of renderer.code
RenderParsed(code) ==
    IF code.json = NotJSON THEN [threw |-> TRUE]
    ELSE IF code.json.t = "array" THEN renderProductList(code.json.v)
    ELSE renderProductCard(code.json)

\* renderer.code with the fragment chosen by the tag.
RendererCodeByTag(code, language) ==
    IF language \in RenderTags
    THEN LET r == IF code.json = NotJSON THEN [threw |-> TRUE]
                  ELSE IF language = "dictionary-list-to-render"
                  THEN IF code.json.t = "array" THEN renderProductList(code.json.v)
                       ELSE renderProductList(<<code.json>>)
                  ELSE renderProductCard(code.json)
         IN  IF r.threw THEN originalCodeRenderer(code, language) ELSE r
    ELSE originalCodeRenderer(code, language)

\* renderer.code without the try/catch.
RendererCodeNoCatch(code, language) ==
    IF language \in RenderTags THEN RenderParsed(code)
    ELSE originalCodeRenderer(code, language)

\* renderer.code = function(code, language) { ... }
RendererCode(code, language) ==
    IF language \in RenderTags
    THEN LET r == RenderParsed(code)
         IN  IF r.threw THEN originalCodeRenderer(code, language) ELSE r
    ELSE originalCodeRenderer(code, language)

\* .replace(/<p>|<\/p>/g, "") over a run of elements: every <p> and </p>
\* is cut out, and what a paragraph held stays in its place.
RECURSIVE ReplaceInElements(_)
ReplaceInElements(elements) ==
    IF elements = <<>> THEN <<>>
    ELSE (IF Head(elements).kind = "p" THEN Head(elements).children
          ELSE <<Head(elements)>>)
         \o ReplaceInElements(Tail(elements))

ReplaceInCard(card) == [card EXCEPT !.details = ReplaceInElements(@)]

\* marked(message.content).replace(/<p>|<\/p>/g, "") over the HTML that
\* renderer.code returned for the block: the run of elements that is shown.
ReplaceParagraphTags(html) ==
    IF html.kind = "p" THEN html.children
    ELSE IF html.kind = "product-card" THEN <<ReplaceInCard(html)>>
    ELSE IF html.kind = "product-list"
    THEN <<[html EXCEPT !.cards = [i \in 1..Len(@) |-> ReplaceInCard(@[i])]]>>
    ELSE <<html>>

RenderInputs == [done : {FALSE}, code : CodeBlocks, language : Languages]

\* The next message is rendered, and marked meets a fenced code block.
NextBlock ==
    /\ render.done
    /\ render' \in RenderInputs
    /\ UNCHANGED <<windowVars, lsHistory, now, repo, coreVars>>

\* marked calls renderer.code on the block, and the <p> and </p> tags are
\* cut out of the HTML before it is shown (nothing is shown when
\* renderer.code throws).
RenderBlock ==
    /\ ~render.done
    /\ LET out == RendererCode(render.code, render.language)
       IN  render' = [done |-> TRUE, code |-> render.code,
                      language |-> render.language, out |-> out,
                      shown |-> IF out.threw THEN <<>>
                                ELSE ReplaceParagraphTags(out.html)]
    /\ UNCHANGED <<windowVars, lsHistory, now, repo, coreVars>>

InitRender ==
    LET m == Mount(<<>>, NoSession, 0, 1)
    IN  /\ apiModule = "part_001"
        /\ now = 0
        /\ messages = m.messages
        /\ input = <<>>
        /\ isLoading = FALSE
        /\ chatHistory = m.chatHistory
        /\ currentSessionId = m.currentSessionId
        /\ prevMessagesRef = m.prevM
        /\ prevSessionIdRef = m.prevS
        /\ defaultMessage = m.defaultMessage
        /\ lsHistory = m.lsHistory
        /\ lsCurrent = m.lsCurrent
        /\ nextId = m.nextId
        /\ inflight = Idle
        /\ pendingTimers = 0
        /\ sends = 0
        /\ lastReq = NoRequest
        /\ truth = [NoTurns EXCEPT ![1] = <<Turn(m.defaultMessage[1])>>]
        /\ effect = m.effect
        /\ lastReply = NoReply
        /\ repo = NoCall
        /\ render \in RenderInputs
        /\ CoreAtRest

NextRender == NextBlock \/ RenderBlock

SpecRender == InitRender /\ [][NextRender]_vars

(***************************************************************************)
(* The chat-history utilities (getAllChatHistories, saveChatSession,       *)
(* deleteChatSession, clearAllChatHistories) over the same localStorage    *)
(* key as the chat window.                                                 *)
(***************************************************************************)
\* The key can also hold a text that no code of the repository writes: one
\* that is not JSON, or the JSON of something that is no array. Such a text
\* is kept, like a list, as what JSON.parse makes of it.
NotJSONText == <<NotJSON>>   \* JSON.parse throws a SyntaxError
NullText == <<JNull>>        \* JSON.parse gives null

\* The list of sessions the key holds, if it holds one.
StoredSessions(ls) ==
    IF ls = <<>> \/ ls[1] = NotJSONText \/ ls[1] = NullText THEN <<>> ELSE ls[1]

\* Which calls of localStorage throw, as one call of a utility finds it.
Working ==
    [getItemThrows |-> FALSE, setItemThrows |-> FALSE, removeItemThrows |-> FALSE]
\* QuotaExceededError: the store is full.
QuotaExceeded ==
    [getItemThrows |-> FALSE, setItemThrows |-> TRUE, removeItemThrows |-> FALSE]
\* SecurityError: access to the store is denied.
AccessDenied ==
    [getItemThrows |-> TRUE, setItemThrows |-> TRUE, removeItemThrows |-> TRUE]
StorageStates == {Working, QuotaExceeded, AccessDenied}

\* getAllChatHistories: [] for a missing key (or an empty text); what
\* JSON.parse makes of the text otherwise, null (NullText) included; and []
\* from the catch when getItem or JSON.parse throws.
getAllChatHistories(ls, storage) ==
    IF storage.getItemThrows THEN <<>>
    ELSE IF ls = <<>> THEN <<>>
    ELSE IF ls[1] = NotJSONText THEN <<>>
    ELSE ls[1]

\* { ...old, ...chatSession, lastUpdated: new Date().toISOString() }
Merge(old, chatSession, t) ==
    [k \in DOMAIN old \cup DOMAIN chatSession \cup {"lastUpdated"} |->
        IF k = "lastUpdated" THEN t
        ELSE IF k \in DOMAIN chatSession THEN chatSession[k]
        ELSE old[k]]

\* { ...chatSession, lastUpdated: new Date().toISOString() }
Stamp(chatSession, t) ==
    [k \in DOMAIN chatSession \cup {"lastUpdated"} |->
        IF k = "lastUpdated" THEN t ELSE chatSession[k]]

\* Upsert that pushes without looking for the id.
UpsertAlwaysPush(histories, chatSession, t) ==
    Append(histories, Stamp(chatSession, t))

\* saveChatSession, lines 105-121: update the first session with the id in
\* place, or push a new one.
Upsert(histories, chatSession, t) ==
    LET existingIndex == SessionIndex(histories, chatSession.id)
    IN  IF existingIndex >= 1
        THEN [histories EXCEPT ![existingIndex] = Merge(@, chatSession, t)]
        ELSE Append(histories, Stamp(chatSession, t))

Orderings(n) == {p \in [1..n -> 1..n] : \A i, j \in 1..n : p[i] = p[j] => i = j}

HasLastUpdated(s) == "lastUpdated" \in DOMAIN s

\* (a, b) => new Date(b.lastUpdated) - new Date(a.lastUpdated), as the sort
\* reads it: new Date(undefined) is an invalid date, the difference is then
\* NaN, and the sort takes NaN for +0.
CompareLastUpdated(a, b) ==
    IF HasLastUpdated(a) /\ HasLastUpdated(b)
    THEN IF b.lastUpdated > a.lastUpdated THEN 1
         ELSE IF b.lastUpdated < a.lastUpdated THEN -1
         ELSE 0
    ELSE 0

\* Whether the comparator is a consistent comparator for the elements of
\* list (ECMA-262, Array.prototype.sort): equality and order are transitive.
ConsistentComparator(list) ==
    LET n == Len(list)
        c(i, j) == CompareLastUpdated(list[i], list[j])
    IN  \A i, j, k \in 1..n :
            /\ (c(i, j) = 0 /\ c(j, k) = 0) => c(i, k) = 0
            /\ (c(i, j) < 0 /\ c(j, k) < 0) => c(i, k) < 0
            /\ (c(i, j) > 0 /\ c(j, k) > 0) => c(i, k) > 0

\* histories.sort((a, b) => new Date(b.lastUpdated) - new Date(a.lastUpdated)):
\* the arrays the sort can leave. With a consistent comparator the (stable)
\* sort gives the one array that is descending with equal elements in
\* their old order. Sessions without lastUpdated compare equal to every
\* session; beside two sessions with different lastUpdated that makes the
\* comparator inconsistent, and the order is then implementation-defined:
\* any permutation of the array.
SortByLastUpdated(list) ==
    LET n == Len(list)
        Arranged(p) == [i \in 1..n |-> list[p[i]]]
        Stable(p) ==
            \A i, j \in 1..n : i < j =>
                \/ CompareLastUpdated(list[p[i]], list[p[j]]) < 0
                \/ /\ CompareLastUpdated(list[p[i]], list[p[j]]) = 0
                   /\ p[i] < p[j]
    IN  IF ConsistentComparator(list)
        THEN {Arranged(p) : p \in {q \in Orderings(n) : Stable(q)}}
        ELSE {Arranged(p) : p \in Orderings(n)}

WindowTitle == AppendText(Sp(<<"hello">>), "...")
TitleA == Sp(<<"Dishwasher", "parts">>)
TitleB == Sp(<<"Ice", "maker">>)

\* Sessions as the chat window writes them: a timestamp and no lastUpdated.
WindowSession(id, title) ==
    [id |-> id, title |-> title, messages |-> MakeDefaultMessage(0), timestamp |-> 0]

\* What the key can hold when the utilities are first called.
StoredAtStart ==
    { <<>>, LsSet(<<>>), LsSet(NotJSONText), LsSet(NullText),
      LsSet(<<WindowSession(1, NewConversation)>>),
      LsSet(<<WindowSession(2, NewConversation), WindowSession(1, WindowTitle)>>),
      LsSet([i \in 1..MaxStoredIds |->
                WindowSession(MaxStoredIds + 1 - i,
                              IF i = MaxStoredIds THEN WindowTitle
                              ELSE NewConversation)]) }

\* The sessions handed to saveChatSession: whole, or with some fields only.
RepoSessions ==
    UNION { { [id |-> id, title |-> TitleA, messages |-> MakeDefaultMessage(0)],
              [id |-> id, title |-> TitleB],
              [id |-> id, messages |-> <<>>] } : id \in 1..MaxRepoIds }

\* saveChatSession(chatSession). histories.findIndex throws a TypeError
\* when histories is null, and setItem may throw: the catch turns either
\* into `return false`, with the key as it was.
SaveChatSession(chatSession, storage) ==
    /\ LET read == getAllChatHistories(lsHistory, storage)
       IN  IF read = NullText \/ storage.setItemThrows
           THEN /\ lsHistory' = lsHistory
                /\ repo' = [op |-> "save", arg |-> chatSession, at |-> now,
                            storage |-> storage,
                            before |-> lsHistory, after |-> lsHistory,
                            ret |-> FALSE]
           ELSE \E sorted \in SortByLastUpdated(Upsert(read, chatSession, now)) :
                /\ lsHistory' = LsSet(sorted)
                /\ repo' = [op |-> "save", arg |-> chatSession, at |-> now,
                            storage |-> storage,
                            before |-> lsHistory, after |-> LsSet(sorted),
                            ret |-> TRUE]
    /\ UNCHANGED <<windowVars, now, render, coreVars>>

\* Removal by a loop that puts each session with another id at the front
\* of the new list (unshift): the sessions that stay come out reversed.
FilterByUnshift(histories, sessionId) ==
    LET kept == SelectSeq(histories, LAMBDA session : session.id # sessionId)
    IN  [i \in 1..Len(kept) |-> kept[Len(kept) + 1 - i]]

\* histories.filter(session => session.id !== sessionId)
FilterHistories(histories, sessionId) ==
    SelectSeq(histories, LAMBDA session : session.id # sessionId)

\* deleteChatSession(sessionId). histories.filter throws a TypeError when
\* histories is null, and setItem may throw: the catch turns either into
\* `return false`, with the key as it was.
DeleteChatSession(sessionId, storage) ==
    /\ LET read == getAllChatHistories(lsHistory, storage)
       IN  IF read = NullText \/ storage.setItemThrows
           THEN /\ lsHistory' = lsHistory
                /\ repo' = [op |-> "delete", arg |-> sessionId, at |-> now,
                            storage |-> storage,
                            before |-> lsHistory, after |-> lsHistory,
                            ret |-> FALSE]
           ELSE LET filteredHistories == FilterHistories(read, sessionId)
                IN  /\ lsHistory' = LsSet(filteredHistories)
                    /\ repo' = [op |-> "delete", arg |-> sessionId, at |-> now,
                                storage |-> storage,
                                before |-> lsHistory,
                                after |-> LsSet(filteredHistories),
                                ret |-> TRUE]
    /\ UNCHANGED <<windowVars, now, render, coreVars>>

\* clearAllChatHistories(): the catch turns a throwing removeItem into
\* `return false`, with the key as it was.
ClearAllChatHistories(storage) ==
    /\ IF storage.removeItemThrows
       THEN /\ lsHistory' = lsHistory
            /\ repo' = [op |-> "clear", arg |-> 0, at |-> now,
                        storage |-> storage,
                        before |-> lsHistory, after |-> lsHistory, ret |-> FALSE]
       ELSE /\ lsHistory' = <<>>
            /\ repo' = [op |-> "clear", arg |-> 0, at |-> now,
                        storage |-> storage,
                        before |-> lsHistory, after |-> <<>>, ret |-> TRUE]
    /\ UNCHANGED <<windowVars, now, render, coreVars>>

\* A call of getAllChatHistories() by itself: it reads and writes nothing.
GetAllChatHistories(storage) ==
    /\ repo' = [op |-> "list", arg |-> 0, at |-> now, before |-> lsHistory,
                after |-> lsHistory, storage |-> storage,
                ret |-> getAllChatHistories(lsHistory, storage)]
    /\ UNCHANGED <<windowVars, lsHistory, now, render, coreVars>>

\* Time passes between two calls.
RepoTick ==
    /\ now < MaxClock
    /\ now' = now + 1
    /\ repo' = NoCall
    /\ UNCHANGED <<windowVars, lsHistory, render, coreVars>>

InitRepo ==
    /\ apiModule = "part_001"
    /\ now = 0
    /\ messages = MakeDefaultMessage(0)
    /\ input = <<>>
    /\ isLoading = FALSE
    /\ chatHistory = <<>>
    /\ currentSessionId = NoSession
    /\ prevMessagesRef = MakeDefaultMessage(0)
    /\ prevSessionIdRef = NoSession
    /\ defaultMessage = MakeDefaultMessage(0)
    /\ lsHistory \in StoredAtStart
    /\ lsCurrent = NoSession
    /\ nextId = 1
    /\ inflight = Idle
    /\ pendingTimers = 0
    /\ sends = 0
    /\ lastReq = NoRequest
    /\ truth = NoTurns
    /\ effect = NotRun
    /\ lastReply = NoReply
    /\ repo = NoCall
    /\ render = NoRender
    /\ CoreAtRest

NextRepo ==
    \/ \E chatSession \in RepoSessions, storage \in StorageStates :
           SaveChatSession(chatSession, storage)
    \/ \E sessionId \in 1..MaxStoredIds, storage \in StorageStates :
           DeleteChatSession(sessionId, storage)
    \/ \E storage \in StorageStates : ClearAllChatHistories(storage)
    \/ \E storage \in StorageStates : GetAllChatHistories(storage)
    \/ RepoTick

SpecRepo == InitRepo /\ [][NextRepo]_vars

(***************************************************************************)
(* The backend, modelled from its specification.                           *)
(*                                                                         *)
(* The Conversation Orchestrator: the state machine of one request,        *)
(* RECEIVED -> CLASSIFIED -> (CLARIFYING | TRANSLATED) -> QUERIED ->       *)
(* COMPOSED -> RESPONDED, with the terminal states RESPONDED and FAILED.   *)
(* A request carries one intent. Each action is one step of the machine    *)
(* with the call it makes to a component and that call's outcome.          *)
(***************************************************************************)
MaxTurns == 3           \* requests of one conversation over a run

MaxStoreRetries == 2    \* StoreUnavailable: bounded retry, up to 2 attempts
MaxClarifications == 2  \* consecutive turns the same clarification is asked

Intents ==
    {"FIND_PART", "PURCHASE", "INSTALL_VIDEO", "CROSS_REFERENCE",
     "GENERAL_QUESTION", "CLARIFICATION_NEEDED"}

\* INSTALL_VIDEO and CROSS_REFERENCE resolve the part first and then fetch
\* its videos or edges: two store calls.
TwoStepIntents == {"INSTALL_VIDEO", "CROSS_REFERENCE"}

TerminalStates == {"RESPONDED", "FAILED"}

\* The client of the request while no state machine runs for it.
ClientAtRest ==
    /\ apiModule = "part_001"
    /\ now = 0
    /\ messages = MakeDefaultMessage(0)
    /\ input = <<>>
    /\ isLoading = FALSE
    /\ chatHistory = <<>>
    /\ currentSessionId = NoSession
    /\ prevMessagesRef = MakeDefaultMessage(0)
    /\ prevSessionIdRef = NoSession
    /\ defaultMessage = MakeDefaultMessage(0)
    /\ lsHistory = <<>>
    /\ lsCurrent = NoSession
    /\ nextId = 1
    /\ inflight = Idle
    /\ pendingTimers = 0
    /\ sends = 0
    /\ lastReq = NoRequest
    /\ truth = NoTurns
    /\ effect = NotRun
    /\ lastReply = NoReply
    /\ repo = NoCall
    /\ render = NoRender

clientVars == <<windowVars, lsHistory, now, repo, render>>

\* An error handler that lets the exception through to the client.
OnComponentErrorRaise(o, err) == [o EXCEPT !.error = err, !.raised = err]

\* A component error that is not handled locally: the Orchestrator moves to
\* FAILED and composes the generic apology.
OnComponentError(o, err) ==
    [o EXCEPT !.state = "FAILED", !.error = err, !.response = "apology"]

\* The Orchestrator works on a request as long as no exception has left it.
Running(state) == orch.state = state /\ orch.raised = "none"

\* A request arrives: the first one, or the next user turn, which restarts
\* at RECEIVED with the accumulated history. The history tells how many
\* consecutive turns have just been answered by a clarification prompt.
Receive ==
    /\ orch.raised = "none"
    /\ orch.state \in {"IDLE"} \cup TerminalStates
    /\ orch.turn < MaxTurns
    /\ orch' = [NoOrch EXCEPT
                   !.state = "RECEIVED",
                   !.turn = orch.turn + 1,
                   !.clarifications =
                       IF orch.state = "RESPONDED" /\ orch.response = "clarification"
                       THEN orch.clarifications + 1
                       ELSE 0]
    /\ UNCHANGED <<clientVars, catalog, lastRun, lastQuery>>

ClassifierOutcomes == {"ok", "service_error", "service_error_no_entity", "cancelled"}

\* The Intent Classifier's result. A classifier-service error downgrades to
\* the deterministic fallback; when that yields no entity either, the
\* result is GENERAL_QUESTION.
ClassifierResult(outcome, intent) ==
    IF outcome = "service_error_no_entity" THEN "GENERAL_QUESTION" ELSE intent

\* RECEIVED -> CLASSIFIED: the call of the Intent Classifier. A client
\* disconnect or an exceeded timeout cancels the call in flight.
Classify(outcome, intent) ==
    /\ Running("RECEIVED")
    /\ orch' = IF outcome = "cancelled"
               THEN OnComponentError(orch, "Cancelled")
               ELSE [orch EXCEPT !.state = "CLASSIFIED",
                                 !.intent = ClassifierResult(outcome, intent),
                                 !.fallback = outcome # "ok"]
    /\ UNCHANGED <<clientVars, catalog, lastRun, lastQuery>>

\* A routing that sends every intent to the Query Translator.
NeedsClarifyingNever(o) == FALSE

\* Whether the request is answered by a clarification prompt: the
\* classifier asks for one, and the same clarification has not been asked
\* for MaxClarifications consecutive turns already (then the Orchestrator
\* answers with best-effort partial information instead).
NeedsClarifying(o) ==
    o.intent = "CLARIFICATION_NEEDED" /\ o.clarifications < MaxClarifications

\* CLASSIFIED -> CLARIFYING: translation and query are short-circuited.
Clarify ==
    /\ Running("CLASSIFIED")
    /\ NeedsClarifying(orch)
    /\ orch' = [orch EXCEPT !.state = "CLARIFYING"]
    /\ UNCHANGED <<clientVars, catalog, lastRun, lastQuery>>

\* CLASSIFIED -> TRANSLATED: the call of the Query Translator.
Translate(outcome) ==
    /\ Running("CLASSIFIED")
    /\ ~NeedsClarifying(orch)
    /\ LET called == [orch EXCEPT !.translatorCalls = @ + 1]
       IN  orch' = IF outcome = "error"
                   THEN OnComponentError(called, "TranslatorError")
                   ELSE [called EXCEPT
                            !.state = "TRANSLATED",
                            !.bestEffort = orch.intent = "CLARIFICATION_NEEDED",
                            !.storeStep = 1]
    /\ UNCHANGED <<clientVars, catalog, lastRun, lastQuery>>

\* The store calls the translated query needs: none for GENERAL_QUESTION,
\* which is answered without store lookup.
PlannedStoreCalls(o) ==
    IF o.intent = "GENERAL_QUESTION" THEN 0
    ELSE IF o.intent \in TwoStepIntents THEN 2
    ELSE 1

\* A retry policy without a bound.
ShouldRetryAlways(retries) == TRUE

\* StoreUnavailable is retried up to MaxStoreRetries times.
ShouldRetry(retries) == retries < MaxStoreRetries

StoreOutcomes == {"found", "empty", "unavailable", "cancelled"}

\* TRANSLATED -> QUERIED without a store call.
SkipStore ==
    /\ Running("TRANSLATED")
    /\ PlannedStoreCalls(orch) = 0
    /\ orch' = [orch EXCEPT !.state = "QUERIED"]
    /\ UNCHANGED <<clientVars, catalog, lastRun, lastQuery>>

\* TRANSLATED -> QUERIED: one call of the Catalog Store and its outcome.
\* StoreUnavailable is retried or, the retries exhausted, fatal for the
\* request; an empty result is a valid result.
QueryStore(outcome) ==
    /\ Running("TRANSLATED")
    /\ PlannedStoreCalls(orch) > 0
    /\ LET called == [orch EXCEPT !.storeCalls = @ + 1]
       IN  orch' =
             CASE outcome = "cancelled" ->
                    OnComponentError(called, "Cancelled")
               [] outcome = "unavailable" ->
                    IF ShouldRetry(orch.retries)
                    THEN [called EXCEPT !.retries = @ + 1]
                    ELSE OnComponentError(called, "StoreUnavailable")
               [] outcome = "empty" ->
                    [called EXCEPT !.state = "QUERIED", !.results = "empty"]
               [] outcome = "found" ->
                    IF orch.storeStep < PlannedStoreCalls(orch)
                    THEN [called EXCEPT !.storeStep = @ + 1, !.retries = 0]
                    ELSE [called EXCEPT !.state = "QUERIED", !.results = "found"]
    /\ UNCHANGED <<clientVars, catalog, lastRun, lastQuery>>

\* The Result Composer's response: zero results give a plain "not found"
\* sentence; a fragment that fails validation is replaced by a plain-text
\* summary (CompositionMalformed is handled by the Composer).
ComposedResponse(o, malformed) ==
    IF o.results = "empty" THEN "not_found"
    ELSE IF malformed /\ o.results = "found" THEN "summary"
    ELSE IF o.bestEffort THEN "best_effort"
    ELSE "answer"

\* QUERIED -> COMPOSED
Compose(malformed) ==
    /\ Running("QUERIED")
    /\ orch' = [orch EXCEPT !.state = "COMPOSED",
                            !.response = ComposedResponse(orch, malformed)]
    /\ UNCHANGED <<clientVars, catalog, lastRun, lastQuery>>

\* CLARIFYING -> COMPOSED: the clarification prompt.
ComposeClarification ==
    /\ Running("CLARIFYING")
    /\ orch' = [orch EXCEPT !.state = "COMPOSED", !.response = "clarification"]
    /\ UNCHANGED <<clientVars, catalog, lastRun, lastQuery>>

\* COMPOSED -> RESPONDED: the response goes to the client.
Respond ==
    /\ Running("COMPOSED")
    /\ orch' = [orch EXCEPT !.state = "RESPONDED"]
    /\ UNCHANGED <<clientVars, catalog, lastRun, lastQuery>>

InitOrch == ClientAtRest /\ CoreAtRest

\* The steps of the Orchestrator on the request at hand.
OrchStep ==
    \/ \E outcome \in ClassifierOutcomes, intent \in Intents :
           Classify(outcome, intent)
    \/ Clarify
    \/ \E outcome \in {"ok", "error"} : Translate(outcome)
    \/ SkipStore
    \/ \E outcome \in StoreOutcomes : QueryStore(outcome)
    \/ \E malformed \in BOOLEAN : Compose(malformed)
    \/ ComposeClarification
    \/ Respond

NextOrch == Receive \/ OrchStep

SpecOrch == InitOrch /\ [][NextOrch]_vars

\* The Orchestrator keeps working on a request it has received.
SpecOrchLive == SpecOrch /\ WF_vars(OrchStep)

(***************************************************************************)
(* Catalog Ingestion and the cross-reference query over the Catalog Store, *)
(* modelled from their specification. A part number is a string, "" when   *)
(* the source item has none.                                               *)
(***************************************************************************)
MaxItemsPerRun == 2     \* source items of one Ingestion run

SourceItem(mfr, ps, name, type) ==
    [manufacturer_number |-> mfr, partselect_number |-> ps, name |-> name,
     appliance_type |-> type]

\* The vendor's listings: with both numbers, with a partselect number
\* only, and with neither.
SourceItems ==
    { SourceItem("W10195416", "PS11752778", "Water filter", "refrigerator"),
      SourceItem("WPW10321304", "PS11749842", "Door bin", "refrigerator"),
      SourceItem("", "PS2358130", "Ice maker", "refrigerator"),
      SourceItem("", "", "Spray arm", "dishwasher") }

SourceEdge(from, to, relation) == [from |-> from, to |-> to, relation |-> relation]

\* The compatibility relations a run may carry, its endpoints named by part
\* number; "W404" names no listing.
SourceEdgeSets ==
    { {},
      {SourceEdge("W10195416", "WPW10321304", "replaces"),
       SourceEdge("W10195416", "W404", "replaces")},
      {SourceEdge("WPW10321304", "W10195416", "replaces")},
      {SourceEdge("W10195416", "PS2358130", "compatible_with"),
       SourceEdge("PS2358130", "W10195416", "replaces")} }

SourceRuns ==
    [items : UNION {[1..n -> SourceItems] : n \in 0..MaxItemsPerRun},
     edges : SourceEdgeSets]

\* Upsert key precedence: manufacturer_number, then partselect_number, then
\* a derived hash of (name, appliance_type).
UpsertKey(item) ==
    IF item.manufacturer_number # "" THEN <<"manufacturer_number", item.manufacturer_number>>
    ELSE IF item.partselect_number # "" THEN <<"partselect_number", item.partselect_number>>
    ELSE <<"hash", item.name, item.appliance_type>>

\* The index in parts of the Part with the key, or 0.
PartIndex(parts, key) ==
    IF \E i \in 1..Len(parts) : parts[i].key = key
    THEN CHOOSE i \in 1..Len(parts) : parts[i].key = key
    ELSE 0

PartOf(item, partId) == [part_id |-> partId, key |-> UpsertKey(item), fields |-> item]

\* An insert that does not look for the key.
InsertPart(cat, item) ==
    [cat EXCEPT !.parts = Append(@, PartOf(item, cat.nextPartId)),
                !.nextPartId = @ + 1]

\* upsert_part(Part) -> PartId: the Part with the item's key keeps its
\* part_id and has its other fields replaced; an unknown key gets a new
\* part_id.
UpsertPart(cat, item) ==
    LET i == PartIndex(cat.parts, UpsertKey(item))
    IN  IF i > 0
        THEN [cat EXCEPT !.parts[i] = PartOf(item, @.part_id)]
        ELSE [cat EXCEPT !.parts = Append(@, PartOf(item, cat.nextPartId)),
                         !.nextPartId = @ + 1]

RECURSIVE UpsertParts(_, _)
UpsertParts(cat, items) ==
    IF items = <<>> THEN cat
    ELSE UpsertParts(UpsertPart(cat, Head(items)), Tail(items))

\* get_part_by_number(string) -> Part?: the part_id of the Part with the
\* number, or 0.
GetPartByNumber(parts, number) ==
    LET Has(i) == number # "" /\ number \in {parts[i].fields.manufacturer_number,
                                             parts[i].fields.partselect_number}
    IN  IF \E i \in 1..Len(parts) : Has(i)
        THEN parts[CHOOSE i \in 1..Len(parts) :
                       Has(i) /\ \A j \in 1..(i - 1) : ~Has(j)].part_id
        ELSE 0

\* upsert_edge(CompatibilityEdge) for the edges of a run: an edge with an
\* endpoint that references no existing Part is rejected.
UpsertEdges(cat, edges) ==
    LET Id(number) == GetPartByNumber(cat.parts, number)
        accepted == {e \in edges : Id(e.from) # 0 /\ Id(e.to) # 0}
    IN  [cat EXCEPT !.edges = @ \cup
            {[from_part_id |-> Id(e.from), to_part_id |-> Id(e.to),
              relation |-> e.relation] : e \in accepted}]

\* One Ingestion run over the source data run: the Parts, then the edges.
IngestRun(run) ==
    /\ LET after == UpsertEdges(UpsertParts(catalog, run.items), run.edges)
       IN  /\ catalog' = after
           /\ lastRun' = [done |-> TRUE, run |-> run, before |-> catalog,
                          after |-> after,
                          rerun |-> lastRun.done /\ lastRun.run = run]
    /\ lastQuery' = NoQuery
    /\ UNCHANGED <<clientVars, orch>>

\* find_edges that reports every edge as leaving the anchor.
FindEdgesFromAnchor(edges, partId) ==
    {[from_part_id |-> partId,
      to_part_id |-> IF e.from_part_id = partId THEN e.to_part_id ELSE e.from_part_id,
      relation |-> e.relation] :
        e \in {x \in edges : partId \in {x.from_part_id, x.to_part_id}}}

\* find_edges(part_id, relation = None): the edges in both directions where
\* the anchor is either endpoint, each with its relation and its direction.
FindEdges(edges, partId) ==
    {e \in edges : partId \in {e.from_part_id, e.to_part_id}}

PartNumbers == {"W10195416", "WPW10321304", "PS2358130", "W404"}

\* A CROSS_REFERENCE query anchored at the part with the number: the
\* anchor is resolved, then its edges are fetched.
CrossReference(number) ==
    /\ lastQuery' =
           LET anchor == GetPartByNumber(catalog.parts, number)
           IN  [done |-> TRUE, number |-> number, anchor |-> anchor,
                edges |-> IF anchor = 0 THEN {}
                          ELSE FindEdges(catalog.edges, anchor)]
    /\ lastRun' = NoRun
    /\ UNCHANGED <<clientVars, orch, catalog>>

InitCatalog == ClientAtRest /\ CoreAtRest

NextCatalog ==
    \/ \E run \in SourceRuns : IngestRun(run)
    \/ \E number \in PartNumbers : CrossReference(number)

SpecCatalog == InitCatalog /\ [][NextCatalog]_vars

(***************************************************************************)
(* Properties of the client.                                               *)
(***************************************************************************)
NonLoadingCount(seq) == Cardinality({i \in 1..Len(seq) : ~IsLoadingMsg(seq[i])})

HasHistory(req) == req.sent /\ "conversation_history" \in DOMAIN req.body

\* C1: every request body has the fields query (the utterance) and
\* conversation_history, whose elements carry exactly role and content.
C1_BodyHasQueryAndHistory ==
    lastReq.sent =>
        /\ DOMAIN lastReq.body = {"query", "conversation_history"}
        /\ lastReq.body.query = lastReq.utterance.content
        /\ \A i \in 1..Len(lastReq.body.conversation_history) :
               DOMAIN lastReq.body.conversation_history[i] = {"role", "content"}

\* C2: the conversation_history of a request holds no element that comes
\* from a loading placeholder: it has one element per displayed message
\* that is not a placeholder, each with a content.
C2_NoPlaceholderInHistory ==
    HasHistory(lastReq) =>
        LET h == lastReq.body.conversation_history
        IN  /\ Len(h) = NonLoadingCount(lastReq.source)
            /\ \A i \in 1..Len(h) : "content" \in DOMAIN h[i]

\* C2 witness: a request is sent from a message list that holds a stale
\* loading placeholder.
C2_Witness ==
    /\ HasHistory(lastReq)
    /\ \E i \in 1..Len(lastReq.source) : IsLoadingMsg(lastReq.source[i])

\* C3: the conversation_history of a request is the record of the session
\* the query is sent from: the turns produced for that session, in order,
\* each once (with or without the utterance being sent), and nothing else.
C3_HistoryIsSessionRecord ==
    HasHistory(lastReq) =>
        lastReq.body.conversation_history
            \in { lastReq.turnsBefore,
                  lastReq.turnsBefore \o <<Turn(lastReq.utterance)>> }

\* C4: conversation_history holds only the turns that preceded the
\* utterance: one element per message displayed before the send, the
\* utterance itself not among them.
C4_UtteranceNotInHistory ==
    HasHistory(lastReq) =>
        LET h == lastReq.body.conversation_history
            prior == SubSeq(lastReq.source, 1, Len(lastReq.source) - 1)
        IN  /\ Len(h) = NonLoadingCount(prior)
            /\ (Len(h) > 0 => h[Len(h)] # Turn(lastReq.utterance))

Non2xx(resp) == resp.net = "ok" /\ (resp.status < 200 \/ resp.status > 299)

Http500Apology ==
    Sp(<<"Sorry,", "I", "encountered", "an", "error", "while", "processing",
         "your", "request:", "HTTP", "error!", "Status:", "500.", "Please",
         "try", "again", "later.">>)

BodyReadApology ==
    Sp(<<"Sorry,", "I", "encountered", "an", "error", "while", "processing",
         "your", "request:", "network", "error.", "Please", "try", "again",
         "later.">>)

\* C5: when the server answers with a non-2xx status, the displayed list
\* becomes its messages other than loading placeholders followed by exactly
\* one assistant message, the local apology, whatever the body says.
C5_Non2xxGetsOneLocalApology ==
    (lastReply.handled /\ Non2xx(lastReply.resp)) =>
        LET a == lastReply.after
            last == a[Len(a)]
        IN  /\ messages = a
            /\ ~isLoading
            /\ SubSeq(a, 1, Len(a) - 1) = SelectSeq(lastReply.before, NotLoading)
            /\ NotLoading(last)
            /\ last.role = "assistant"
            /\ last.content \in {Http500Apology, BodyReadApology}

\* C5 witness: a 500 whose body is a well-formed answer is handled while the
\* loading placeholder is displayed.
C5_Witness ==
    /\ lastReply.handled
    /\ Non2xx(lastReply.resp)
    /\ lastReply.resp.body = AnswerBody
    /\ IsLoadingMsg(lastReply.before[Len(lastReply.before)])

\* C6: getAIMessage resolves, for every outcome of the request, to an
\* assistant message with a non-empty content, and handleSend displays that
\* message: its catch branch is not taken.
C6_GetAIMessageNeverRejects ==
    lastReply.handled =>
        /\ lastReply.result.settled = "resolved"
        /\ lastReply.result.value.role = "assistant"
        /\ lastReply.result.value.content # <<>>
        /\ messages[Len(messages)] = lastReply.result.value
        /\ messages[Len(messages)].content # SendErrorContent

\* C6 witness: a 200 whose body is the JSON null (reading data.response
\* throws) has been handled.
C6_Witness ==
    /\ lastReply.handled
    /\ lastReply.resp.net = "ok"
    /\ lastReply.resp.status = 200
    /\ lastReply.resp.body.json = JNull

Rendered == "out" \in DOMAIN render

\* Payloads whose parsing or rendering throws: not JSON, null, or an array
\* with a null element.
Unrenderable(code) ==
    \/ code.json = NotJSON
    \/ code.json = JNull
    \/ code.json.t = "array" /\ \E i \in 1..Len(code.json.v) : code.json.v[i] = JNull

LiteralCodeBlock(r) ==
    [kind |-> "code", text |-> r.code.text, lang |-> r.language]

\* C7: renderer.code never throws; under a render tag a payload that is not
\* JSON, or whose rendering throws, is rendered as the literal code block;
\* under any other tag every block is rendered as the literal code block.
\* The literal code block is also what is shown.
C7_MalformedFallsBackToLiteral ==
    Rendered =>
        /\ ~render.out.threw
        /\ (render.language \in RenderTags /\ Unrenderable(render.code))
               => /\ render.out.html = LiteralCodeBlock(render)
                  /\ render.shown = <<LiteralCodeBlock(render)>>
        /\ render.language \notin RenderTags
               => /\ render.out.html = LiteralCodeBlock(render)
                  /\ render.shown = <<LiteralCodeBlock(render)>>

\* C7 witness: an array with a null element has been rendered under
\* json-to-render.
C7_Witness ==
    /\ Rendered
    /\ render.language = "json-to-render"
    /\ render.code.json = JArray(<<DoorBin, JNull>>)

IsObjectOrArray(code) ==
    /\ ~Unrenderable(code)
    /\ code.json.t \in {"object", "array"}

\* C8 as stated: the tag decides, for every valid object or array payload:
\* json-to-render gives a single card, dictionary-list-to-render a list.
C8_TagDeterminesFragment ==
    (Rendered /\ render.language \in RenderTags /\ IsObjectOrArray(render.code)) =>
        /\ render.language = "json-to-render"
               => render.out.html.kind = "product-card"
        /\ render.language = "dictionary-list-to-render"
               => render.out.html \in {NoProductsFound}
                  \/ render.out.html.kind = "product-list"

\* C8 amended: under either render tag the payload decides: an array that
\* renders gives a product list with one card per element ("No products
\* found" when empty), any other payload that renders gives a single card.
\* What is shown is that fragment with its <p> and </p> tags cut out.
C8_PayloadDeterminesFragment ==
    (Rendered /\ render.language \in RenderTags /\ ~Unrenderable(render.code)) =>
        LET json == render.code.json
            html == render.out.html
            shown == render.shown
        IN  IF json.t = "array"
            THEN IF Len(json.v) = 0
                 THEN /\ html = NoProductsFound
                      /\ shown = <<TextNode("No products found")>>
                 ELSE /\ html.kind = "product-list"
                      /\ Len(html.cards) = Len(json.v)
                      /\ \A i \in 1..Len(json.v) : html.cards[i].kind = "product-card"
                      /\ Len(shown) = 1
                      /\ shown[1].kind = "product-list"
                      /\ Len(shown[1].cards) = Len(json.v)
                      /\ \A i \in 1..Len(json.v) :
                             /\ shown[1].cards[i].kind = "product-card"
                             /\ \A k \in 1..Len(shown[1].cards[i].details) :
                                    shown[1].cards[i].details[k].kind # "p"
            ELSE /\ html.kind = "product-card"
                 /\ Len(shown) = 1
                 /\ shown[1].kind = "product-card"
                 /\ \A k \in 1..Len(shown[1].details) :
                        shown[1].details[k].kind # "p"

\* C8 witness: an array of two products has been rendered under json-to-render.
C8_Witness ==
    /\ Rendered
    /\ render.language = "json-to-render"
    /\ render.code.json = JArray(<<WaterFilter, DoorBin>>)
    /\ render.out.html.kind = "product-list"

\* Whether the stored entry of the session the effect ran for already had
\* the displayed messages and a title the effect would keep.
AlreadySaved(e) ==
    LET stored == LsGet(e.lsBefore)
    IN  \E i \in 1..Len(stored) :
            /\ stored[i].id = e.sid
            /\ \A j \in 1..(i - 1) : stored[j].id # e.sid
            /\ stored[i].messages = e.messages
            /\ \/ stored[i].title # NewConversation
               \/ \A k \in 1..Len(e.messages) : e.messages[k].role # "user"

\* C9: when the save effect runs and the stored entry of the current
\* session already has the displayed messages and the title the effect
\* would give it, the effect writes nothing: localStorage (the entry's
\* timestamp included) and the chatHistory state are as before it ran.
C9_NoRedundantWrite ==
    (effect.outcome # "not_run" /\ AlreadySaved(effect)) =>
        /\ effect.lsAfter = effect.lsBefore
        /\ effect.histAfter = effect.histBefore
        /\ lsHistory = effect.lsBefore
        /\ chatHistory = effect.histBefore

\* C9 witness: the effect ran for a session that holds a conversation, found
\* it stored as displayed, at a later time than the entry was written.
C9_Witness ==
    /\ effect.outcome = "unchanged"
    /\ Len(effect.messages) > 1
    /\ \E i \in 1..Len(LsGet(lsHistory)) :
           /\ LsGet(lsHistory)[i].id = effect.sid
           /\ LsGet(lsHistory)[i].timestamp < now

IdsOf(ls) == SessionIds(StoredSessions(ls))
CountOf(ls) == Len(StoredSessions(ls))
EntryOf(ls, id) == FindSession(StoredSessions(ls), id)
OnePerId(ls) ==
    \A i, j \in 1..CountOf(ls) :
        StoredSessions(ls)[i].id = StoredSessions(ls)[j].id => i = j

\* C10: saveChatSession is an upsert keyed by id. The stored list never
\* holds two sessions with one id. A save that succeeds of a stored id
\* keeps the number of sessions and leaves under that id the old session
\* with the new fields over it (and lastUpdated); of a new id it adds
\* exactly one session, the one saved; every other session is as before.
\* A save that fails leaves the list as it was.
C10_SaveIsUpsert ==
    /\ OnePerId(lsHistory)
    /\ repo.op = "save" =>
        LET id == repo.arg.id
            known == id \in IdsOf(repo.before)
            saved == EntryOf(repo.after, id)
        IN  IF ~repo.ret THEN repo.after = repo.before /\ lsHistory = repo.before
            ELSE /\ lsHistory = repo.after
                 /\ id \in IdsOf(repo.after)
                 /\ CountOf(repo.after) = CountOf(repo.before) + (IF known THEN 0 ELSE 1)
                 /\ \A k \in DOMAIN repo.arg \ {"lastUpdated"} : saved[k] = repo.arg[k]
                 /\ saved.lastUpdated = repo.at
                 /\ DOMAIN saved =
                        DOMAIN repo.arg \cup {"lastUpdated"}
                        \cup (IF known THEN DOMAIN EntryOf(repo.before, id) ELSE {})
                 /\ known =>
                        \A k \in DOMAIN EntryOf(repo.before, id)
                                 \ (DOMAIN repo.arg \cup {"lastUpdated"}) :
                            saved[k] = EntryOf(repo.before, id)[k]
                 /\ \A other \in IdsOf(repo.before) \ {id} :
                        /\ other \in IdsOf(repo.after)
                        /\ EntryOf(repo.after, other) = EntryOf(repo.before, other)

\* C10 witness: a session written by the chat window has been saved again
\* with a new title only, beside another stored session.
C10_Witness ==
    /\ repo.op = "save"
    /\ repo.ret
    /\ repo.arg.id \in IdsOf(repo.before)
    /\ "messages" \notin DOMAIN repo.arg
    /\ "timestamp" \in DOMAIN EntryOf(repo.after, repo.arg.id)
    /\ CountOf(repo.after) > 1

\* Whether the sessions of a list that carry lastUpdated are in descending
\* order of it.
DescendingLastUpdated(list) ==
    \A i, j \in 1..Len(list) :
        (i < j /\ HasLastUpdated(list[i]) /\ HasLastUpdated(list[j]))
            => list[i].lastUpdated >= list[j].lastUpdated

\* C11: after every saveChatSession that succeeds the stored history is
\* sorted by lastUpdated, most recent first, and the session just saved is
\* its first element, whatever the key held before (sessions written by
\* the chat window, which have no lastUpdated, included).
C11_SavedSessionFirst ==
    (repo.op = "save" /\ repo.ret) =>
        /\ DescendingLastUpdated(LsGet(repo.after))
        /\ LsGet(repo.after)[1].id = repo.arg.id

\* The indices of the sessions of ls whose id is not id.
KeptIndices(ls, id) == {i \in 1..CountOf(ls) : StoredSessions(ls)[i].id # id}

\* The number of sessions with the id among the first i sessions of ls.
RemovedUpTo(ls, id, i) ==
    Cardinality({j \in 1..i : StoredSessions(ls)[j].id = id})

\* What one deleteChatSession that returns true has done, from its record:
\* the sessions with another id are left, as they were and in their old
\* order, and the list is as it was when the id was not stored.
RemovedOnlyThatId ==
    /\ lsHistory = repo.after
    /\ repo.arg \notin IdsOf(repo.after)
    /\ CountOf(repo.after) = Cardinality(KeptIndices(repo.before, repo.arg))
    /\ \A i \in KeptIndices(repo.before, repo.arg) :
           StoredSessions(repo.after)[i - RemovedUpTo(repo.before, repo.arg, i)]
               = StoredSessions(repo.before)[i]
    /\ repo.arg \notin IdsOf(repo.before)
           => StoredSessions(repo.after) = StoredSessions(repo.before)

\* Every deleteChatSession returns true and has removed that id only.
DeletedOnlyAndTrue ==
    repo.op = "delete" => (repo.ret /\ RemovedOnlyThatId)

\* C12 as stated: deleteChatSession(id) removes every stored session with
\* that id and nothing else: the other sessions keep their contents and
\* their relative order; deleting an id that is not stored leaves the list
\* as it was and still returns true; and deleting the same id a second
\* time changes nothing more.
C12_DeleteRemovesOnlyThatId ==
    /\ []DeletedOnlyAndTrue
    /\ [][(repo.op = "delete" /\ repo'.op = "delete" /\ repo'.arg = repo.arg)
            => lsHistory' = lsHistory]_vars

\* deleteChatSession returns true unless the store fails it (setItem
\* throws, or the key holds the JSON of something that is no array). When
\* it returns true it has removed that id only; when it returns false the
\* key is as it was.
DeletedOnly ==
    repo.op = "delete" =>
        /\ repo.ret <=> /\ ~repo.storage.setItemThrows
                        /\ getAllChatHistories(repo.before, repo.storage) # NullText
        /\ IF repo.ret THEN RemovedOnlyThatId
           ELSE repo.after = repo.before /\ lsHistory = repo.before

\* C12 amended: a deleteChatSession(id) that the store does not fail
\* returns true, for an id that is not stored too, and removes every
\* stored session with that id and nothing else: the other sessions keep
\* their contents and their relative order, and deleting an id that is not
\* stored leaves the list as it was. A delete that the store fails returns
\* false and changes nothing. After a delete of an id that returned true,
\* another delete of that id changes nothing more.
C12_DeleteRemovesOnlyThatIdWhenStoreWorks ==
    /\ []DeletedOnly
    /\ [][(repo.op = "delete" /\ repo.ret
            /\ repo'.op = "delete" /\ repo'.arg = repo.arg)
            => lsHistory' = lsHistory]_vars

\* C12 witness: the second of three stored sessions has been deleted and
\* the other two stay behind, the first still before the third.
C12_Witness ==
    /\ repo.op = "delete"
    /\ repo.ret
    /\ CountOf(repo.before) = 3
    /\ StoredSessions(repo.before)[2].id = repo.arg
    /\ CountOf(repo.after) = 2
    /\ StoredSessions(repo.after)[1] = StoredSessions(repo.before)[1]
    /\ StoredSessions(repo.after)[2] = StoredSessions(repo.before)[3]

\* The message lists of session s in a state of the window: the displayed
\* list when s is the displayed session, and the list stored under s.
ListsOf(msgs, sid, ls, s) ==
    (IF sid = s THEN {msgs} ELSE {})
    \cup {LsGet(ls)[i].messages : i \in {j \in 1..CountOf(ls) : LsGet(ls)[j].id = s}}

\* Every message of old that is not a loading placeholder is in new at the
\* same index, the same in every field.
KeepsTurns(old, new) ==
    \A i \in 1..Len(old) :
        NotLoading(old[i]) => (i <= Len(new) /\ new[i] = old[i])

\* C13: the turns of a session are ordered by arrival and append-only. A
\* message that is not a loading placeholder and is in a session's list
\* (displayed or stored) is, in every later state of that session's list,
\* at the same index with the same role, content and timestamp.
C13_TurnsAppendOnly ==
    [][\A s \in 1..MaxSessions :
         \A old \in ListsOf(messages, currentSessionId, lsHistory, s) :
           \A new \in ListsOf(messages', currentSessionId', lsHistory', s) :
             KeepsTurns(old, new)]_vars

(***************************************************************************)
(* Properties of the backend.                                              *)
(***************************************************************************)
\* The responses that are a well-formed response string.
WellFormedResponses ==
    {"answer", "not_found", "summary", "best_effort", "clarification", "apology"}

\* What the client of a request has got when the request has ended.
ErrorsEndInApology ==
    /\ orch.raised = "none"
    /\ orch.error # "none" => orch.state = "FAILED"
    /\ orch.state = "FAILED" => (orch.error # "none" /\ orch.response = "apology")
    /\ orch.state = "RESPONDED" =>
           (orch.error = "none" /\ orch.response \in WellFormedResponses \ {"apology"})

\* C14: on any component error that is not handled locally the
\* Orchestrator moves to FAILED and the client receives the generic
\* apology; no exception reaches the client; a request that has reached a
\* terminal state stays in it; and every request received ends in
\* RESPONDED or in FAILED.
C14_EveryRequestEndsRespondedOrFailed ==
    /\ []ErrorsEndInApology
    /\ [][(orch.state \in TerminalStates /\ orch'.turn = orch.turn)
            => orch' = orch]_vars
    /\ \A t \in 1..MaxTurns :
           (orch.turn = t /\ orch.state = "RECEIVED")
               ~> (orch.turn = t /\ orch.state \in TerminalStates)

\* C14 witness: the Query Translator has raised an error in the second
\* request of a conversation, and the request has ended in FAILED.
C14_Witness ==
    /\ orch.turn = 2
    /\ orch.state = "FAILED"
    /\ orch.error = "TranslatorError"
    /\ orch.response = "apology"

\* The states a request answered by a clarification prompt goes through
\* once it is classified.
ClarifyingPath == {"CLASSIFIED", "CLARIFYING", "COMPOSED", "RESPONDED"}

ShortCircuited ==
    /\ orch.state \in ClarifyingPath
    /\ orch.translatorCalls = 0
    /\ orch.storeCalls = 0
    /\ orch.state \in {"COMPOSED", "RESPONDED"} => orch.response = "clarification"

\* C15 as stated: whenever the classifier yields CLARIFICATION_NEEDED the
\* request goes through CLARIFYING straight to a composed clarification
\* prompt, with no Query Translator call and no Catalog Store query, and
\* ends in RESPONDED.
C15_ClarificationShortCircuits ==
    orch.intent = "CLARIFICATION_NEEDED" => ShortCircuited

\* C15 amended: the same, as long as the clarification has not been asked
\* for MaxClarifications consecutive turns already; then the request is
\* not answered by a clarification prompt and never enters CLARIFYING.
C15_ClarificationShortCircuitsWithinBound ==
    orch.intent = "CLARIFICATION_NEEDED" =>
        IF orch.clarifications < MaxClarifications
        THEN ShortCircuited
        ELSE /\ orch.state # "CLARIFYING"
             /\ orch.response # "clarification"

\* C15 witness: a clarification prompt has been sent in answer to a request
\* classified CLARIFICATION_NEEDED, no translator or store call made.
C15_Witness ==
    /\ orch.intent = "CLARIFICATION_NEEDED"
    /\ orch.state = "RESPONDED"
    /\ orch.response = "clarification"
    /\ orch.translatorCalls = 0
    /\ orch.storeCalls = 0

\* C16: a store call that raises StoreUnavailable is retried at most
\* MaxStoreRetries times; when the retries are exhausted the request ends
\* in FAILED with the generic apology, and no error reaches the client.
C16_StoreRetryIsBounded ==
    /\ orch.retries <= MaxStoreRetries
    /\ orch.storeCalls <= 2 * (1 + MaxStoreRetries)
    /\ orch.raised = "none"
    /\ orch.error = "StoreUnavailable" =>
           /\ orch.state = "FAILED"
           /\ orch.response = "apology"
           /\ orch.retries = MaxStoreRetries
           /\ orch.storeCalls >= 1 + MaxStoreRetries

\* C16 witness: the store has been unavailable at the first call and at
\* both retries, and the request has ended with the apology.
C16_Witness ==
    /\ orch.error = "StoreUnavailable"
    /\ orch.state = "FAILED"
    /\ orch.storeCalls = 1 + MaxStoreRetries
    /\ orch.response = "apology"

PartIds(cat) == {cat.parts[i].part_id : i \in 1..Len(cat.parts)}

\* The part_id under which cat holds the source item, or 0.
PartIdOfItem(cat, item) ==
    LET i == PartIndex(cat.parts, UpsertKey(item))
    IN  IF i = 0 THEN 0 ELSE cat.parts[i].part_id

\* C17: Ingestion is idempotent. Part ids are unique; and a run over the
\* same source data as the run before it leaves the number of Parts as it
\* was, and every Part of an item with a manufacturer_number under the
\* part_id it had.
C17_IngestionIsIdempotent ==
    /\ Cardinality(PartIds(catalog)) = Len(catalog.parts)
    /\ (lastRun.done /\ lastRun.rerun) =>
        /\ Len(lastRun.after.parts) = Len(lastRun.before.parts)
        /\ \A i \in 1..Len(lastRun.run.items) :
               LET item == lastRun.run.items[i]
               IN  item.manufacturer_number # "" =>
                       /\ PartIdOfItem(lastRun.after, item) # 0
                       /\ PartIdOfItem(lastRun.after, item)
                              = PartIdOfItem(lastRun.before, item)

\* C17 witness: the same two items, one of them with a manufacturer_number,
\* have been ingested a second time into a catalog with another Part.
C17_Witness ==
    /\ lastRun.done
    /\ lastRun.rerun
    /\ Len(lastRun.run.items) = 2
    /\ lastRun.run.items[1] # lastRun.run.items[2]
    /\ lastRun.run.items[2].manufacturer_number # ""
    /\ Len(lastRun.after.parts) = 3

ReplacesEdge(a, b) == [from_part_id |-> a, to_part_id |-> b, relation |-> "replaces"]

\* C18: cross-reference directionality. A CROSS_REFERENCE query anchored
\* at A surfaces every edge (A, B, replaces) as an edge from A to B with
\* relation replaces; and a query anchored at B reports (B, A, replaces)
\* only if the catalog holds that edge.
C18_DirectionPreserved ==
    (lastQuery.done /\ lastQuery.anchor # 0) =>
        \A other \in PartIds(catalog) :
            /\ ReplacesEdge(lastQuery.anchor, other) \in catalog.edges
                   => ReplacesEdge(lastQuery.anchor, other) \in lastQuery.edges
            /\ ReplacesEdge(lastQuery.anchor, other) \in lastQuery.edges
                   => ReplacesEdge(lastQuery.anchor, other) \in catalog.edges
            /\ ReplacesEdge(other, lastQuery.anchor) \in lastQuery.edges
                   => ReplacesEdge(other, lastQuery.anchor) \in catalog.edges

\* C18 witness: the query is anchored at a part B that another part A
\* replaces while B replaces no part, and the edge from A to B is surfaced.
C18_Witness ==
    /\ lastQuery.done
    /\ lastQuery.anchor # 0
    /\ \E a \in PartIds(catalog) :
           /\ ReplacesEdge(a, lastQuery.anchor) \in lastQuery.edges
           /\ ReplacesEdge(lastQuery.anchor, a) \notin catalog.edges

\* C19: the assistant reply to a query is appended only to the session the
\* query was sent from. When a reply is handled, whatever loadSession,
\* startNewChat and deleteSession did while the request was in flight, no
\* other session's message list, displayed or stored, changes.
C19_ReplyOnlyInOriginatingSession ==
    [][lastReply'.handled =>
         \A s \in (1..MaxSessions) \ {lastReply'.sid} :
             ListsOf(messages', currentSessionId', lsHistory', s)
                 \subseteq ListsOf(messages, currentSessionId, lsHistory, s)]_vars

IsAssistantMsg(m) == m.role = "assistant" /\ NotLoading(m)

\* The list holds the user message followed by exactly one assistant
\* message.
AnsweredOnce(list, userMessage) ==
    \E i \in 1..Len(list) :
        /\ list[i] = userMessage
        /\ i < Len(list)
        /\ IsAssistantMsg(list[i + 1])
        /\ i + 2 <= Len(list) => ~IsAssistantMsg(list[i + 2])

\* C20: every accepted send is answered exactly once. When the fetch of an
\* accepted send has settled and its reply has been handled, isLoading is
\* false again and the originating session, as long as it is stored, holds
\* the user message followed by exactly one assistant message (the answer
\* or the apology).
C20_EverySendAnsweredOnce ==
    lastReply.handled =>
        /\ ~isLoading
        /\ lastReply.sid \in IdsOf(lsHistory) =>
               AnsweredOnce(EntryOf(lsHistory, lastReply.sid).messages,
                            lastReply.userMessage)

(***************************************************************************)
(* Properties of the chat window's requests and sessions.                  *)
(***************************************************************************)
\* C21: at most one chat request is in flight per chat window. While a
\* request is in flight isLoading is true, which disables the input and
\* the send button; and a handleSend starts only when isLoading is false
\* and no request is in flight, whatever session is displayed.
C21_OneRequestInFlight ==
    /\ [](inflight.active => isLoading)
    /\ [][lastReq'.sent => (~isLoading /\ ~inflight.active)]_vars

\* C21 witness: a second request, sent after the first has settled, is in
\* flight while a session other than the one it was sent from is displayed.
C21_Witness ==
    /\ sends = 2
    /\ inflight.active
    /\ isLoading
    /\ currentSessionId # inflight.sid

\* The number of loading placeholders of a message list.
LoadingCount(list) == Cardinality({i \in 1..Len(list) : IsLoadingMsg(list[i])})

\* C22: the displayed message list holds at most one loading placeholder,
\* and holds one only while a request is in flight (isLoading true); and
\* when no request is in flight no session the user can load holds one.
C22_PlaceholderOnlyWhileLoading ==
    /\ LoadingCount(messages) <= 1
    /\ LoadingCount(messages) = 1 => isLoading
    /\ ~isLoading =>
           \A i \in 1..Len(chatHistory) : LoadingCount(chatHistory[i].messages) = 0

\* C23: loading placeholders are never persisted. No session stored under
\* 'instalily_chat_history' holds a message with isLoading set.
C23_PlaceholderNeverStored ==
    \A i \in 1..CountOf(lsHistory) : LoadingCount(LsGet(lsHistory)[i].messages) = 0

\* The displayed session as C24 describes it.
CurrentSessionConsistent ==
    /\ currentSessionId \in SessionIds(chatHistory)
    /\ currentSessionId = lsCurrent
    /\ RemoveLoading(FindSession(chatHistory, currentSessionId).messages)
           = RemoveLoading(messages)

\* C24 as stated: in every state after initialisation currentSessionId
\* identifies a session of chatHistory, equals the value stored under
\* 'instalily_current_session', and the displayed messages are that
\* session's messages, up to the loading placeholder.
C24_CurrentSessionConsistent == CurrentSessionConsistent

\* C24 amended: the same in every state in which no startNewChat deferred
\* by deleteSession (setTimeout) is pending.
C24_CurrentSessionConsistentOutsideTimer ==
    pendingTimers = 0 => CurrentSessionConsistent

\* C24 witness: a reply has been handled in a session that was loaded from
\* the history list, and no deferred startNewChat is pending.
C24_Witness ==
    /\ pendingTimers = 0
    /\ lastReply.handled
    /\ Len(chatHistory) = 2
    /\ currentSessionId = chatHistory[2].id
    /\ CurrentSessionConsistent

\* C26: the in-memory chatHistory and the list stored under
\* 'instalily_chat_history' agree after every completed operation of the
\* chat window, and the session ids of that list are pairwise distinct.
C26_HistoryAgreesWithStorage ==
    /\ chatHistory = LsGet(lsHistory)
    /\ OnePerId(lsHistory)

\* C26 witness: a reply has been handled and written to the stored session
\* while two sessions exist.
C26_Witness ==
    /\ lastReply.handled
    /\ effect.outcome = "written"
    /\ Len(chatHistory) = 2
    /\ chatHistory = LsGet(lsHistory)

\* What a step that deletes a session (the only step that shortens
\* chatHistory) does to the displayed session.
DeleteSwitches ==
    Len(chatHistory') < Len(chatHistory) =>
        IF currentSessionId \in SessionIds(chatHistory) \ SessionIds(chatHistory')
        THEN IF chatHistory' # <<>>
             THEN /\ currentSessionId' = chatHistory'[1].id
                  /\ lsCurrent' = chatHistory'[1].id
                  /\ messages' = chatHistory'[1].messages
                  /\ pendingTimers' = pendingTimers
             ELSE pendingTimers' = pendingTimers + 1
        ELSE /\ currentSessionId' = currentSessionId
             /\ messages' = messages
             /\ pendingTimers' = pendingTimers

====
